---- MODULE Spec2Model ----
(***************************************************************************)
(* A model of the NBA same-game-parlay pipeline's core: the settlement     *)
(* engine (src/src/settlement.py) with the database calls it makes         *)
(* (src/src/db_manager.py), the edge calculator                            *)
(* (src/src/edge_calculator.py) and the six signals (src/src/signals).     *)
(*                                                                         *)
(* Units.  Python floats are modelled as fixed-point integers:             *)
(*   - a leg's line is kept in half points (LineUnit = 2), so 10.5 is 21;  *)
(*   - signal strengths and confidences and the signal weights are kept in *)
(*     hundredths (0.15 is 15);                                            *)
(*   - edge scores and aggregated confidences are kept in ten-thousandths  *)
(*     (a product of two hundredths), so 0.08 is 800.                      *)
(* Every comparison the code makes is against a constant on these grids,   *)
(* so a value between two grid points compares like the grid point below.  *)
(*                                                                         *)
(* Names.  A player name is a sequence of words and a word is a sequence   *)
(* of one-character strings; the string the code handles is the words      *)
(* joined by single spaces.                                                *)
(***************************************************************************)
EXTENDS Integers, Sequences, FiniteSets, TLC

VARIABLES
    pc,              \* "start" before the operation under study ran, "done" after
    parlay,          \* the parlay handed to _settle_parlay: id, legs, combined_odds
    player_stats,    \* the box scores: a list of <<normalized name, stats>> in insertion order
    db_legs,         \* nba_sgp_legs: leg id -> [actual_value, result]
    db_settlements,  \* nba_sgp_settlements: parlay id -> settlement record
    settlement,      \* what _settle_parlay returned
    db_parlays,      \* nba_sgp_parlays: the stored parlays with their nested legs
    db_calls,        \* every write call settlement made on the database so far, in order
    uuids,           \* how many uuid4 values have been generated
    runs,            \* how many settlement runs have been made
    summary,         \* what the last settle_date returned, None if it raised
    outcome,         \* how the last settle_date ended: "", "returned" or "raised"
    ctx,             \* the PropContext of the prop under evaluation
    raw_signals,     \* what each signal's calculate did: the pair computed, or raised
    signal_results,  \* the SignalResult list
    edge_score,      \* ten-thousandths
    confidence,      \* ten-thousandths
    recommendation,
    weights,         \* the weight vector calculate_edge applies, hundredths
    edge_result,     \* what calculate_edge returned
    props,           \* the props handed to analyze_props or fetched by _process_game
    analyzed,        \* what analyze_props returned
    generated,       \* what _process_game returned: the parlays it built
    saves            \* how many calls of save_parlay have been made

vars == <<pc, parlay, player_stats, db_legs, db_settlements, settlement,
          db_parlays, db_calls, uuids, runs, summary, outcome,
          ctx, raw_signals, signal_results, edge_score, confidence,
          recommendation, weights, edge_result, props, analyzed, generated,
          saves>>

settleVars == <<parlay, player_stats, db_legs, db_settlements, settlement,
                db_parlays, db_calls, uuids, runs, summary, outcome>>
edgeVars == <<ctx, raw_signals, signal_results, edge_score, confidence,
              recommendation, weights, edge_result>>
gameVars == <<props, analyzed, generated, saves>>

(***************************************************************************)
(* Python's None and optional values: None is the empty tuple, a present   *)
(* value v is <<v>>.                                                       *)
(***************************************************************************)
None == <<>>
Some(v) == <<v>>

Abs(x) == IF x < 0 THEN -x ELSE x

RECURSIVE SumSeq(_)
SumSeq(s) == IF s = <<>> THEN 0 ELSE Head(s) + SumSeq(Tail(s))

Last(s) == s[Len(s)]
Front(s) == SubSeq(s, 1, Len(s) - 1)

(***************************************************************************)
(* Bounds of the model.                                                    *)
(***************************************************************************)
MaxLegs == 3        \* legs per parlay in the parlay-grading runs
MaxPlayers == 2     \* box-score entries in the name-matching runs
MaxStat == 1        \* largest value of one box-score column
MaxLine == 4        \* largest line, in half points
MaxEdge == 27       \* largest edge score handed to _get_recommendation, hundredths
MaxConf == 60       \* largest confidence handed to _get_recommendation, hundredths
MaxEnv == 6         \* largest environment strength in those runs, hundredths
MaxRaw == 105       \* largest raw strength or confidence a signal computes, hundredths

LineUnit == 2

(***************************************************************************)
(* Characters and names                                                    *)
(***************************************************************************)
\* str.lower() on one character
Lower(c) ==
    CASE c = "A" -> "a" [] c = "B" -> "b" [] c = "D" -> "d" [] c = "E" -> "e"
      [] c = "J" -> "j" [] c = "L" -> "l" [] c = "Z" -> "z"
      [] c = "O_acute" -> "o_acute"
      [] OTHER -> c

\* NFKD decomposition of one character with the combining marks dropped
StripDiacriticsChar(c) == IF c = "o_acute" THEN "o" ELSE c

RECURSIVE MapWord(_, _)
MapWord(w, step) ==
    IF w = <<>> THEN <<>>
    ELSE <<IF step = "lower" THEN Lower(Head(w)) ELSE StripDiacriticsChar(Head(w))>>
         \o MapWord(Tail(w), step)

\* str.replace('.', '').replace("'", '') on one word
RECURSIVE RemovePunctuation(_)
RemovePunctuation(w) ==
    IF w = <<>> THEN <<>>
    ELSE IF Head(w) \in {".", "'"} THEN RemovePunctuation(Tail(w))
         ELSE <<Head(w)>> \o RemovePunctuation(Tail(w))

\* str.strip() on a name: leading and trailing empty words go
RECURSIVE Strip(_)
Strip(name) ==
    IF name = <<>> THEN <<>>
    ELSE IF Head(name) = <<>> THEN Strip(Tail(name))
    ELSE IF Last(name) = <<>> THEN Strip(Front(name))
    ELSE name

\* str.split(): the non-empty words
RECURSIVE Split(_)
Split(name) ==
    IF name = <<>> THEN <<>>
    ELSE IF Head(name) = <<>> THEN Split(Tail(name))
         ELSE <<Head(name)>> \o Split(Tail(name))

\* the suffixes _normalize_name strips, in the order it tries them
Suffixes == << <<"j","r">>, <<"i","i","i">>, <<"i","i">>, <<"i","v">>, <<"s","r">> >>

\* normalized.endswith(' ' + suffix)
EndsWithSuffix(name, suffix) == Len(name) >= 2 /\ Last(name) = suffix

RECURSIVE StripSuffixes(_, _)
StripSuffixes(name, i) ==
    IF i > Len(Suffixes) THEN name
    ELSE StripSuffixes(IF EndsWithSuffix(name, Suffixes[i]) THEN Front(name) ELSE name,
                       i + 1)

StripDiacritics(name) == [i \in DOMAIN name |-> MapWord(name[i], "nfkd")]

NormalizeName(name) ==
    LET lowered == Strip([i \in DOMAIN name |-> MapWord(name[i], "lower")])
        plain == StripDiacritics(lowered)
        bare == [i \in DOMAIN plain |-> RemovePunctuation(plain[i])]
    IN  Strip(StripSuffixes(bare, 1))

\* word in text, for words: some contiguous run of text equals word
IsSubstring(word, text) ==
    \E i \in 1..(Len(text) + 1) :
        /\ i + Len(word) - 1 <= Len(text)
        /\ SubSeq(text, i, i + Len(word) - 1) = word

\* last_name in name, where name is a whole normalized name and last_name
\* holds no space: the run lies inside one word of the name
LastNameIn(last_name, name) ==
    \/ last_name = <<>>
    \/ \E i \in DOMAIN name : IsSubstring(last_name, name[i])

\* name_parts[0].startswith(first_initial)
StartsWith(word, initial) == initial = <<>> \/ (word # <<>> /\ <<Head(word)>> = initial)

(***************************************************************************)
(* Box-score lookup.  player_stats is the dict of _settle_parlay's         *)
(* all_player_stats in insertion order: a sequence of [name, stats].       *)
(***************************************************************************)
\* player_stats.get(normalized)
DictGet(box, key) ==
    IF \E i \in DOMAIN box : box[i].name = key
    THEN Some(box[CHOOSE i \in DOMAIN box : box[i].name = key].stats)
    ELSE None

FirstIndex(S) == CHOOSE i \in S : \A j \in S : i <= j

FuzzyMatchPlayer(player_name, box) ==
    LET normalized == NormalizeName(player_name)
        parts == Split(normalized)
        last_name == Last(parts)
        candidates == {i \in DOMAIN box : LastNameIn(last_name, box[i].name)}
        first_initial == IF parts[1] # <<>> THEN <<Head(parts[1])>> ELSE <<>>
        hits == {i \in DOMAIN box :
                    LET name_parts == Split(box[i].name)
                    IN  /\ Len(name_parts) >= 2
                        /\ Last(name_parts) = last_name
                        /\ StartsWith(name_parts[1], first_initial)}
    IN  IF Len(parts) < 2 THEN None
        ELSE IF Cardinality(candidates) = 1
             THEN Some(box[CHOOSE i \in candidates : TRUE].stats)
        ELSE IF hits # {} THEN Some(box[FirstIndex(hits)].stats)
        ELSE None

(***************************************************************************)
(* Stat columns                                                            *)
(***************************************************************************)
Single(col) == [combo |-> FALSE, cols |-> <<col>>]
Combo(cols) == [combo |-> TRUE, cols |-> cols]

STAT_MAPPING ==
    [points |-> Single("PTS"), rebounds |-> Single("REB"), assists |-> Single("AST"),
     steals |-> Single("STL"), blocks |-> Single("BLK"), threes |-> Single("FG3M"),
     turnovers |-> Single("TO"), fgm |-> Single("FGM"), ftm |-> Single("FTM"),
     minutes |-> Single("MIN"),
     pra |-> Combo(<<"PTS", "REB", "AST">>), pr |-> Combo(<<"PTS", "REB">>),
     pa |-> Combo(<<"PTS", "AST">>), ra |-> Combo(<<"REB", "AST">>),
     blocks_steals |-> Combo(<<"BLK", "STL">>)]

\* the counting columns _fetch_box_scores puts in a player's stats
StatColumns == {"PTS", "REB", "AST", "STL", "BLK", "FG3M", "TO", "FGM", "FTM"}

\* stats.get(col, 0)
StatsGet(stats, col) == IF col \in DOMAIN stats THEN stats[col] ELSE 0

GetStatValue(stats, stat_type) ==
    IF stat_type \notin DOMAIN STAT_MAPPING THEN None
    ELSE LET mapping == STAT_MAPPING[stat_type]
         IN  IF mapping.combo
             THEN Some(SumSeq([i \in DOMAIN mapping.cols |-> StatsGet(stats, mapping.cols[i])]))
             ELSE Some(StatsGet(stats, mapping.cols[1]))

(***************************************************************************)
(* _settle_leg                                                             *)
(***************************************************************************)
LegResult(actual_value, result) == [actual_value |-> actual_value, result |-> result]

\* Grade without the equality test: a tie goes to the under
GradeWithoutPush(actual, line, direction) ==
    IF direction = "over"
    THEN (IF actual * LineUnit > line THEN "WIN" ELSE "LOSS")
    ELSE (IF actual * LineUnit <= line THEN "WIN" ELSE "LOSS")

\* the comparison of the actual value with the line, in half points
Grade(actual, line, direction) ==
    IF actual * LineUnit = line THEN "PUSH"
    ELSE IF direction = "over"
         THEN (IF actual * LineUnit > line THEN "WIN" ELSE "LOSS")
         ELSE (IF actual * LineUnit < line THEN "WIN" ELSE "LOSS")

\* the stats _settle_leg grades against: the exact entry, else the fuzzy one
FindStats(leg, box) ==
    LET exact == DictGet(box, NormalizeName(leg.player_name))
    IN  IF exact # None THEN exact ELSE FuzzyMatchPlayer(leg.player_name, box)

SettleLeg(leg, box) ==
    LET found == FindStats(leg, box)
    IN  IF found = None THEN LegResult(None, "VOID")
        ELSE LET stats == found[1]
                 minutes == StatsGet(stats, "minutes")
                 actual == GetStatValue(stats, leg.stat_type)
             IN  IF minutes = 0 THEN LegResult(Some(0), "VOID")
                 ELSE IF actual = None THEN LegResult(None, "VOID")
                 ELSE LegResult(actual, Grade(actual[1], leg.line, leg.direction))

(***************************************************************************)
(* _settle_parlay                                                          *)
(***************************************************************************)
\* ParlayResult with a PUSH leg counted against the parlay
ParlayResultPushLoses(results) ==
    IF \A i \in DOMAIN results : results[i] = "VOID" THEN "VOID"
    ELSE IF \E i \in DOMAIN results : results[i] = "LOSS" THEN "LOSS"
    ELSE IF \A i \in DOMAIN results : results[i] \in {"WIN", "VOID"} THEN "WIN"
    ELSE "LOSS"

\* lines 266-274: the parlay's result from its legs' results
ParlayResult(results) ==
    IF \A i \in DOMAIN results : results[i] = "VOID" THEN "VOID"
    ELSE IF \E i \in DOMAIN results : results[i] = "LOSS" THEN "LOSS"
    ELSE IF \A i \in DOMAIN results : results[i] \in {"WIN", "PUSH", "VOID"} THEN "WIN"
    ELSE "LOSS"

\* _calculate_profit paying a WIN the odds themselves whatever their sign
CalculateProfitOddsAsPayout(result, odds) ==
    IF result # "WIN" THEN (IF result = "LOSS" THEN -10000 ELSE 0)
    ELSE odds * 100

\* profit at a $100 stake, in cents; a fraction of a cent is dropped
CalculateProfit(result, odds) ==
    IF result # "WIN" THEN (IF result = "LOSS" THEN -10000 ELSE 0)
    ELSE IF odds >= 0 THEN odds * 100
    ELSE (100 * 100 * 100) \div Abs(odds)

\* db.update_leg_result: UPDATE ... WHERE id = leg_id
UpdateLegResult(legs_table, leg_id, actual_value, result) ==
    [id \in DOMAIN legs_table |->
        IF id = leg_id THEN [actual_value |-> actual_value, result |-> result]
        ELSE legs_table[id]]

RECURSIVE UpdateLegResults(_, _, _, _)
UpdateLegResults(legs_table, legs, leg_results, i) ==
    IF i > Len(legs) THEN legs_table
    ELSE UpdateLegResults(
            UpdateLegResult(legs_table, legs[i].id,
                            leg_results[i].actual_value, leg_results[i].result),
            legs, leg_results, i + 1)

\* db.settle_parlay: a record under a fresh uuid, upserted on parlay_id
SettleParlayRecord(settlements, id, parlay_id, legs_hit, total_legs, result, profit) ==
    LET record == [id |-> id, parlay_id |-> parlay_id, legs_hit |-> legs_hit,
                   total_legs |-> total_legs, result |-> result, profit |-> profit]
    IN  [k \in DOMAIN settlements \cup {parlay_id} |->
            IF k = parlay_id THEN record ELSE settlements[k]]

\* LegsHit with a PUSH leg counted as hit
LegsHitCountingPush(results) ==
    Cardinality({i \in DOMAIN results : results[i] \in {"WIN", "PUSH"}})

\* line 276: sum(1 for r in results if r == 'WIN')
LegsHit(results) == Cardinality({i \in DOMAIN results : results[i] = "WIN"})

\* a write call as db_calls records it
Call(run, table, key, record, ok) ==
    [run |-> run, table |-> table, key |-> key, record |-> record, ok |-> ok]

\* the update_leg_result calls of lines 252-261, the last one failing when ok is FALSE
LegCalls(run, legs, leg_results, n, ok) ==
    [i \in 1..n |-> Call(run, "nba_sgp_legs", legs[i].id, leg_results[i], ok \/ i < n)]

\* the database as one value: the two tables written, the calls and the uuid count
Database(legs_table, settlements, calls, count) ==
    [legs |-> legs_table, settlements |-> settlements, calls |-> calls, uuids |-> count]

\* LegFailure with the settlement record upserted all the same
LegFailureSettling(db, run, legs, leg_results, fail_at, record) ==
    [db |-> Database(UpdateLegResults(db.legs, SubSeq(legs, 1, fail_at - 1), leg_results, 1),
                     [k \in DOMAIN db.settlements \cup {record.parlay_id} |->
                         IF k = record.parlay_id THEN record ELSE db.settlements[k]],
                     db.calls \o LegCalls(run, legs, leg_results, fail_at, FALSE)
                        \o <<Call(run, "nba_sgp_settlements", record.parlay_id, record, TRUE)>>,
                     record.id),
     returned |-> None, raised |-> TRUE]

\* lines 252-261 when the update of leg fail_at raises: the legs before it are
\* written and the exception leaves _settle_parlay
LegFailure(db, run, legs, leg_results, fail_at, record) ==
    [db |-> Database(UpdateLegResults(db.legs, SubSeq(legs, 1, fail_at - 1), leg_results, 1),
                     db.settlements,
                     db.calls \o LegCalls(run, legs, leg_results, fail_at, FALSE),
                     db.uuids),
     returned |-> None, raised |-> TRUE]

\* lines 252-303 once the legs are graded: the leg results written one by
\* one, then the parlay's result derived and the settlement upserted.
\* fail_at = 0: no call fails; fail_at = k: the k-th database call made for
\* this parlay raises (the update of leg k, or the upsert after the last leg).
WriteParlay(p, db, run, fail_at, leg_results) ==
    LET legs == p.nba_sgp_legs
        results == [i \in DOMAIN legs |-> leg_results[i].result]
        id == db.uuids + 1
        record == [id |-> id, parlay_id |-> p.id, legs_hit |-> LegsHit(results),
                   total_legs |-> Len(results), result |-> ParlayResult(results),
                   profit |-> CalculateProfit(ParlayResult(results), p.combined_odds)]
        written == Database(UpdateLegResults(db.legs, legs, leg_results, 1),
                            db.settlements,
                            db.calls \o LegCalls(run, legs, leg_results, Len(legs), TRUE),
                            id)
    IN  IF fail_at \in 1..Len(legs)
        THEN LegFailure(db, run, legs, leg_results, fail_at, record)
        ELSE IF fail_at = Len(legs) + 1
        THEN [db |-> [written EXCEPT
                        !.calls = Append(@, Call(run, "nba_sgp_settlements", p.id,
                                                 record, FALSE))],
              returned |-> None, raised |-> TRUE]
        ELSE [db |-> [written EXCEPT
                        !.settlements = SettleParlayRecord(@, id, p.id, record.legs_hit,
                                                           record.total_legs, record.result,
                                                           record.profit),
                        !.calls = Append(@, Call(run, "nba_sgp_settlements", p.id,
                                                 record, TRUE))],
              returned |-> Some([parlay_id |-> p.id, result |-> record.result,
                                 legs_hit |-> record.legs_hit,
                                 total_legs |-> record.total_legs,
                                 profit |-> record.profit]),
              raised |-> FALSE]

\* _settle_parlay on parlay p against the merged box scores: the database
\* afterwards, what was returned, and whether it raised
SettleParlayOn(p, box, db, run, fail_at) ==
    IF p.nba_sgp_legs = <<>>
    THEN [db |-> db, returned |-> None, raised |-> FALSE]
    ELSE WriteParlay(p, db, run, fail_at,
                     [i \in DOMAIN p.nba_sgp_legs |-> SettleLeg(p.nba_sgp_legs[i], box)])

\* the database and the returned value after a call of _settle_parlay
Settled(after) ==
    /\ db_legs' = after.db.legs
    /\ db_settlements' = after.db.settlements
    /\ db_calls' = after.db.calls
    /\ uuids' = after.db.uuids
    /\ settlement' = after.returned

\* one call of _settle_parlay with a database that answers every call
SettleParlayStep(from, to) ==
    /\ pc = from
    /\ parlay # None
    /\ pc' = to
    /\ Settled(SettleParlayOn(parlay, player_stats,
                              Database(db_legs, db_settlements, db_calls, uuids),
                              runs + 1, 0))
    /\ runs' = runs + 1
    /\ UNCHANGED <<parlay, player_stats, db_parlays, summary, outcome>>
    /\ UNCHANGED <<edgeVars, gameVars>>

SettleParlay == SettleParlayStep("start", "done")

NextSettle == SettleParlay

(***************************************************************************)
(* Inputs of the settlement runs                                           *)
(***************************************************************************)
\* normalized names, the keys of the box score
AlBo == << <<"a","l">>, <<"b","o">> >>
AnnBo == << <<"a","n","n">>, <<"b","o">> >>
BoRay == << <<"b","o">>, <<"r","a","y">> >>
CyBob == << <<"c","y">>, <<"b","o","b">> >>
DiLee == << <<"d","i">>, <<"l","e","e">> >>
BoxNames == {AlBo, AnnBo, BoRay, CyBob, DiLee}

\* player names as the legs carry them
LegAlBo == << <<"A","l">>, <<"B","o">> >>
LegAlBoJr == << <<"A","l">>, <<"B","o_acute">>, <<"J","r",".">> >>
LegABo == << <<"A",".">>, <<"B","o">> >>
LegEdBo == << <<"E","d">>, <<"B","o">> >>
LegZed == << <<"Z","e","d">> >>
LegDiLee == << <<"D","'","i">>, <<"L","e","e">> >>
LegNames == {LegAlBo, LegAlBoJr, LegABo, LegEdBo, LegZed, LegDiLee}

MinutesValues == {0, 30}
OddsValues == {-110, 595}

\* the stat types of STAT_MAPPING and one it does not know
StatTypes == DOMAIN STAT_MAPPING \cup {"dunks"}

\* the counting columns a stat type reads
ColumnsOf(stat_type) ==
    IF stat_type \in DOMAIN STAT_MAPPING
    THEN {STAT_MAPPING[stat_type].cols[i] : i \in DOMAIN STAT_MAPPING[stat_type].cols}
         \cap StatColumns
    ELSE {}

\* box-score rows: the columns in cols take every value, the others share one
Rows(cols, player_id) ==
    {[c \in StatColumns \cup {"minutes", "player_id"} |->
        IF c = "minutes" THEN m
        ELSE IF c = "player_id" THEN player_id
        ELSE IF c \in cols THEN v[c] ELSE o] :
     m \in MinutesValues, v \in [cols -> 0..MaxStat], o \in 0..MaxStat}

PlayerId(name) ==
    CASE name = AlBo -> 1 [] name = AnnBo -> 2 [] name = BoRay -> 3
      [] name = CyBob -> 4 [] name = DiLee -> 5

\* the row of a player the run does not vary: every column is his player id
BenchRow(name, m) ==
    [c \in StatColumns \cup {"minutes", "player_id"} |->
        IF c = "minutes" THEN m ELSE PlayerId(name)]

Leg(id, player_name, stat_type, line, direction) ==
    [id |-> id, player_name |-> player_name, stat_type |-> stat_type,
     line |-> line, direction |-> direction]

Directions == {"over", "under"}

\* the legs table before settlement: result and actual_value are null
UnsettledLegs(legs) ==
    [id \in {legs[i].id : i \in DOMAIN legs} |-> [actual_value |-> None, result |-> "null"]]

NoSettlements == [id \in {} |-> None]

\* no game has been processed and no list of props analysed
GameIdle ==
    /\ props = <<>>
    /\ analyzed = None
    /\ generated = None
    /\ saves = 0

NoEdge ==
    /\ ctx = None
    /\ raw_signals = <<>>
    /\ signal_results = <<>>
    /\ edge_score = 0
    /\ confidence = 0
    /\ recommendation = ""
    /\ weights = None
    /\ edge_result = None

EdgeIdle == NoEdge /\ GameIdle

\* the settlement engine has not been called and the database is empty
NoSettlement ==
    /\ parlay = None
    /\ player_stats = <<>>
    /\ db_legs = <<>>
    /\ db_settlements = NoSettlements
    /\ settlement = None
    /\ db_parlays = <<>>
    /\ db_calls = <<>>
    /\ uuids = 0
    /\ runs = 0
    /\ summary = None
    /\ outcome = ""

SettleIdle == NoSettlement /\ GameIdle

SettleStart(legs, odds, box) ==
    /\ pc = "start"
    /\ parlay = [id |-> "p1", nba_sgp_legs |-> legs, combined_odds |-> odds]
    /\ player_stats = box
    /\ db_legs = UnsettledLegs(legs)
    /\ db_settlements = NoSettlements
    /\ settlement = None
    /\ db_parlays = <<>>
    /\ db_calls = <<>>
    /\ uuids = 0
    /\ runs = 0
    /\ summary = None
    /\ outcome = ""
    /\ EdgeIdle

\* one leg of every stat type against one player's row of every shape
InitLeg ==
    \E player_name \in {LegAlBo, LegZed}, stat_type \in StatTypes,
       line \in 0..MaxLine, direction \in Directions :
      \E row \in Rows(ColumnsOf(stat_type), PlayerId(AlBo)) :
        SettleStart(<<Leg(1, player_name, stat_type, line, direction)>>, -110,
                    <<[name |-> AlBo, stats |-> row]>>)

SpecLeg == InitLeg /\ [][NextSettle]_vars

\* every leg name against every small box score, each player in or out of the game
BoxEntries == {[name |-> n, stats |-> BenchRow(n, m)] : n \in BoxNames, m \in MinutesValues}

Boxes(n) ==
    {b \in [1..n -> BoxEntries] : \A i, j \in 1..n : i # j => b[i].name # b[j].name}

InitMatch ==
    \E player_name \in LegNames, stat_type \in {"points", "pra"},
       direction \in Directions, n \in 0..MaxPlayers :
      \E box \in Boxes(n) :
        SettleStart(<<Leg(1, player_name, stat_type, 2 * LineUnit, direction)>>, -110, box)

SpecMatch == InitMatch /\ [][NextSettle]_vars

\* parlays of up to MaxLegs points legs against one player's row
ParlayLegs(n) ==
    {[i \in 1..n |-> Leg(i, c[i].player_name, "points", c[i].line, c[i].direction)] :
        c \in [1..n -> [player_name : {LegAlBo, LegZed}, line : {1, 2},
                        direction : Directions]]}

InitParlay ==
    \E n \in 0..MaxLegs, odds \in OddsValues :
      \E legs \in ParlayLegs(n), row \in Rows({"PTS"}, PlayerId(AlBo)) :
        SettleStart(legs, odds, <<[name |-> AlBo, stats |-> row]>>)

SpecParlay == InitParlay /\ [][NextSettle]_vars

\* _settle_parlay called a second time on the parlay, the box scores unchanged
ResettleParlay == SettleParlayStep("done", "again")

NextResettle == SettleParlay \/ ResettleParlay

\* parlays of up to two legs against one player's row
InitResettle ==
    \E n \in 0..2, odds \in OddsValues :
      \E legs \in ParlayLegs(n), row \in Rows({"PTS"}, PlayerId(AlBo)) :
        SettleStart(legs, odds, <<[name |-> AlBo, stats |-> row]>>)

SpecResettle == InitResettle /\ [][NextResettle]_vars

\* the combined odds a stored parlay may carry: favourites, even money, zero
\* (the default of parlay.get) and underdogs
ProfitOdds == {-250, -110, -100, 0, 100, 595}

\* parlays of up to two legs at every odds of ProfitOdds
InitProfit ==
    \E n \in 0..2, odds \in ProfitOdds :
      \E legs \in ParlayLegs(n), row \in Rows({"PTS"}, PlayerId(AlBo)) :
        SettleStart(legs, odds, <<[name |-> AlBo, stats |-> row]>>)

SpecProfit == InitProfit /\ [][NextSettle]_vars

(***************************************************************************)
(* settle_date                                                             *)
(***************************************************************************)
MaxRuns == 2

\* get_unsettled_parlays without the filter on settlement records
GetUnsettledParlaysOfDate(parlays, settlements, game_date) ==
    SelectSeq(parlays, LAMBDA p : p.game_date = game_date)

\* db.get_unsettled_parlays(game_date=...): the parlays of the date whose id
\* has no settlement record
GetUnsettledParlays(parlays, settlements, game_date) ==
    SelectSeq(parlays, LAMBDA p : p.game_date = game_date /\ p.id \notin DOMAIN settlements)

\* lines 90-98: the summary settle_date starts from
EmptySummary(settle_day) ==
    [date |-> settle_day, parlays_found |-> 0, parlays_settled |-> 0,
     wins |-> 0, losses |-> 0, voids |-> 0, errors |-> <<>>]

\* lines 122-131: a settlement counted into the summary
Counted(result, returned) ==
    IF returned = None THEN result
    ELSE LET counted == [result EXCEPT !.parlays_settled = @ + 1]
         IN  IF returned[1].result = "WIN" THEN [counted EXCEPT !.wins = @ + 1]
             ELSE IF returned[1].result = "LOSS" THEN [counted EXCEPT !.losses = @ + 1]
             ELSE [counted EXCEPT !.voids = @ + 1]

\* the database call of parlay p that raises in this run, 0 if none does
FailAt(fail, p) == IF fail.parlay = p.id THEN fail.write ELSE 0

\* lines 119-135 for one parlay: counted when settled, listed when it raised
Recorded(result, id, after) ==
    IF after.raised THEN [result EXCEPT !.errors = Append(@, id)]
    ELSE Counted(result, after.returned)

\* SettleLoop leaving the loop at the first parlay that raises
RECURSIVE SettleLoopStopOnError(_, _, _, _, _, _, _)
SettleLoopStopOnError(parlays, i, box, db, run, fail, result) ==
    IF i > Len(parlays) \/ result.errors # <<>> THEN [db |-> db, result |-> result]
    ELSE LET after == SettleParlayOn(parlays[i], box, db, run, FailAt(fail, parlays[i]))
         IN  SettleLoopStopOnError(parlays, i + 1, box, after.db, run, fail,
                                   Recorded(result, parlays[i].id, after))

\* lines 118-135: each parlay settled in turn inside its own try/except
RECURSIVE SettleLoop(_, _, _, _, _, _, _)
SettleLoop(parlays, i, box, db, run, fail, result) ==
    IF i > Len(parlays) THEN [db |-> db, result |-> result]
    ELSE LET after == SettleParlayOn(parlays[i], box, db, run, FailAt(fail, parlays[i]))
         IN  SettleLoop(parlays, i + 1, box, after.db, run, fail,
                        Recorded(result, parlays[i].id, after))

\* the date every run settles
SettleDay == "d1"

\* what _fetch_box_scores comes back with: nothing (no games, or the fetch
\* failed and was logged), or the players' rows of the date's games
FetchOutcomes ==
    {None} \cup {Some(<<[name |-> AlBo,
                        stats |-> [BenchRow(AlBo, m) EXCEPT !["PTS"] = v]]>>) :
                    m \in MinutesValues, v \in {0, 1}}

\* the database call that raises in a run: none, or the write-th call made
\* for one parlay
Failures ==
    {[parlay |-> "", write |-> 0]}
    \cup {[parlay |-> id, write |-> k] : id \in {"p1", "p2"}, k \in 1..3}

\* how a run of settle_date ends: the summary returned and the database it leaves
SettleDateReturns(result, box, db) ==
    /\ outcome' = "returned"
    /\ summary' = Some(result)
    /\ player_stats' = box
    /\ db_legs' = db.legs
    /\ db_settlements' = db.settlements
    /\ db_calls' = db.calls
    /\ uuids' = db.uuids

\* lines 108-137: the box scores fetched and, when there are any, the loop
SettleFound(parlays, found, fetched, db, run, fail) ==
    IF fetched = None
    THEN [db |-> db, result |-> [found EXCEPT !.errors = <<"No box scores available">>]]
    ELSE SettleLoop(parlays, 1, fetched[1], db, run, fail, found)

\* lines 100-137 after a query that answered
SettleUnsettled(parlays, fetched, db, run, fail) ==
    IF parlays = <<>> THEN SettleDateReturns(EmptySummary(SettleDay), player_stats, db)
    ELSE LET after == SettleFound(parlays,
                                  [EmptySummary(SettleDay) EXCEPT
                                      !.parlays_found = Len(parlays)],
                                  fetched, db, run, fail)
         IN  SettleDateReturns(after.result, IF fetched = None THEN <<>> ELSE fetched[1], after.db)

\* one run of settle_date for SettleDay
SettleDate ==
    /\ pc \in {"start", "done"}
    /\ db_parlays # <<>>
    /\ runs < MaxRuns
    /\ pc' = "done"
    /\ runs' = runs + 1
    /\ \E query_ok \in BOOLEAN, fetched \in FetchOutcomes, fail \in Failures :
         IF ~query_ok
         THEN /\ outcome' = "raised"
              /\ summary' = None
              /\ UNCHANGED <<player_stats, db_legs, db_settlements, db_calls, uuids>>
         ELSE SettleUnsettled(GetUnsettledParlays(db_parlays, db_settlements, SettleDay),
                              fetched, Database(db_legs, db_settlements, db_calls, uuids),
                              runs + 1, fail)
    /\ UNCHANGED <<parlay, settlement, db_parlays>>
    /\ UNCHANGED <<edgeVars, gameVars>>

NextSettleDate == SettleDate

\* the legs a stored parlay may have: none, one, or two, all on Al Bo's points
StoredLegs(n) ==
    {<<>>,
     <<Leg(10 * n + 1, LegAlBo, "points", 1, "over")>>,
     <<Leg(10 * n + 1, LegAlBo, "points", 1, "over"),
       Leg(10 * n + 2, LegAlBo, "points", 2, "under")>>}

StoredParlay(n, id, game_date, legs) ==
    [id |-> id, game_date |-> game_date, nba_sgp_legs |-> legs, combined_odds |-> 595]

\* the parlays table: p1 alone or p1 and p2, each of SettleDay or another day
StoredParlays ==
    {<<StoredParlay(1, "p1", d, legs)>> : d \in {"d1", "d2"}, legs \in StoredLegs(1)}
    \cup {<<StoredParlay(1, "p1", d1, legs1), StoredParlay(2, "p2", d2, legs2)>> :
            d1 \in {"d1", "d2"}, d2 \in {"d1", "d2"},
            legs1 \in StoredLegs(1), legs2 \in StoredLegs(2)}

RECURSIVE AllLegs(_)
AllLegs(parlays) ==
    IF parlays = <<>> THEN <<>> ELSE Head(parlays).nba_sgp_legs \o AllLegs(Tail(parlays))

InitSettleDate ==
    /\ pc = "start"
    /\ parlay = None
    /\ player_stats = <<>>
    /\ db_parlays \in StoredParlays
    /\ db_legs = UnsettledLegs(AllLegs(db_parlays))
    /\ db_settlements = NoSettlements
    /\ settlement = None
    /\ db_calls = <<>>
    /\ uuids = 0
    /\ runs = 0
    /\ summary = None
    /\ outcome = ""
    /\ EdgeIdle

SpecSettleDate == InitSettleDate /\ [][NextSettleDate]_vars

(***************************************************************************)
(* save_parlay (db_manager.py).  The parlays table is the list of parlay   *)
(* rows, each with the leg rows attached to it (the nested select); the    *)
(* unique constraint (season, season_type, parlay_type, game_id) is the    *)
(* game_id for one season and parlay type.                                 *)
(***************************************************************************)
MaxSaves == 2

\* the rows of the unique key
Existing(parlays, game_id) == {i \in DOMAIN parlays : parlays[i].game_id = game_id}

\* lines 116-132: the id the parlay is stored under
ParlayIdOf(p, parlays) ==
    IF Existing(parlays, p.game_id) # {}
    THEN parlays[CHOOSE i \in Existing(parlays, p.game_id) : TRUE].id
    ELSE p.id

\* delete().eq("parlay_id", parlay_id) on nba_sgp_legs
DeleteLegs(db, parlay_id) ==
    LET gone == UNION {{db.parlays[i].nba_sgp_legs[k].id : k \in DOMAIN db.parlays[i].nba_sgp_legs} :
                          i \in {j \in DOMAIN db.parlays : db.parlays[j].id = parlay_id}}
    IN  [db EXCEPT
            !.parlays = [i \in DOMAIN @ |->
                            IF @[i].id = parlay_id THEN [@[i] EXCEPT !.nba_sgp_legs = <<>>]
                            ELSE @[i]],
            !.legs = [id \in DOMAIN @ \ gone |-> @[id]]]

\* lines 138-159: the record upserted on the unique key; the leg rows already
\* attached to the row stay attached
UpsertParlay(db, p, parlay_id) ==
    LET row == [id |-> parlay_id, game_id |-> p.game_id, game_date |-> p.game_date,
                total_legs |-> p.total_legs, combined_odds |-> p.combined_odds,
                nba_sgp_legs |-> <<>>]
        rows == db.parlays
    IN  [db EXCEPT
            !.parlays = IF Existing(rows, p.game_id) = {} THEN Append(rows, row)
                        ELSE [i \in DOMAIN rows |->
                                 IF i \in Existing(rows, p.game_id)
                                 THEN [row EXCEPT !.nba_sgp_legs = rows[i].nba_sgp_legs]
                                 ELSE rows[i]]]

\* lines 161-187: the first n legs inserted one by one, each under a fresh
\* uuid4, its result and actual_value null
RECURSIVE InsertLegs(_, _, _, _)
InsertLegs(db, legs, parlay_id, n) ==
    IF n = 0 THEN db
    ELSE LET before == InsertLegs(db, legs, parlay_id, n - 1)
             id == before.uuids + 1
         IN  [before EXCEPT
                 !.uuids = id,
                 !.parlays = [i \in DOMAIN @ |->
                       IF @[i].id = parlay_id
                       THEN [@[i] EXCEPT !.nba_sgp_legs = Append(@, [legs[n] EXCEPT !.id = id])]
                       ELSE @[i]],
                 !.legs = [x \in DOMAIN @ \cup {id} |->
                              IF x \in DOMAIN @ THEN @[x]
                              ELSE [actual_value |-> None, result |-> "null"]]]

\* the tables save_parlay touches
Tables(parlays, legs_table, count) == [parlays |-> parlays, legs |-> legs_table, uuids |-> count]

\* save_parlay on parlay dict p.  fail_at = 0: every call answers; 1: the
\* select raises; 2: the delete of the old legs raises; 3: the upsert raises;
\* 3 + k: the insert of leg k raises
SaveParlayOn(p, db, fail_at) ==
    LET exists == Existing(db.parlays, p.game_id) # {}
        parlay_id == ParlayIdOf(p, db.parlays)
        deleted == IF exists THEN DeleteLegs(db, parlay_id) ELSE db
    IN  IF fail_at = 1 \/ (fail_at = 2 /\ exists) THEN [db |-> db, raised |-> TRUE]
        ELSE IF fail_at = 3 THEN [db |-> deleted, raised |-> TRUE]
        ELSE IF fail_at \in 4..(3 + Len(p.legs))
        THEN [db |-> [InsertLegs(UpsertParlay(deleted, p, parlay_id), p.legs, parlay_id,
                                 fail_at - 4)
                         EXCEPT !.uuids = @ + 1],
              raised |-> TRUE]
        ELSE [db |-> InsertLegs(UpsertParlay(deleted, p, parlay_id), p.legs, parlay_id,
                                Len(p.legs)),
              raised |-> FALSE]

\* the tables after a call of save_parlay
Saved(after) ==
    /\ db_parlays' = after.db.parlays
    /\ db_legs' = after.db.legs
    /\ uuids' = after.db.uuids

\* the parlay dicts the generators hand to save_parlay: one or two legs on
\* Al Bo's points, total_legs their number
ParlayDict(id, game_id, legs) ==
    [id |-> id, game_id |-> game_id, game_date |-> SettleDay, total_legs |-> Len(legs),
     combined_odds |-> 595, legs |-> legs]

SaveInputs ==
    {ParlayDict("p1", "g1", [k \in DOMAIN d |-> Leg(0, LegAlBo, "points", 1, d[k])]) :
        d \in UNION {[1..m -> Directions] : m \in {1, 2}}}

\* one call of save_parlay
SaveParlay ==
    /\ saves < MaxSaves
    /\ saves' = saves + 1
    /\ \E p \in SaveInputs, fail_at \in 0..5 :
         /\ fail_at <= 3 + Len(p.legs)
         /\ Saved(SaveParlayOn(p, Tables(db_parlays, db_legs, uuids), fail_at))
    /\ UNCHANGED <<pc, parlay, player_stats, db_settlements, settlement, db_calls, runs,
                   summary, outcome, props, analyzed, generated>>
    /\ UNCHANGED edgeVars

NextSave == SaveParlay \/ SettleDate

InitSave ==
    /\ pc = "start"
    /\ NoSettlement
    /\ NoEdge
    /\ GameIdle

SpecSave == InitSave /\ [][NextSave]_vars

(***************************************************************************)
(* Settlement properties                                                   *)
(***************************************************************************)
\* the results the legs table holds for the parlay's legs, in leg order
WrittenResults == [i \in DOMAIN parlay.nba_sgp_legs |-> db_legs[parlay.nba_sgp_legs[i].id].result]

Graded == pc = "done" /\ settlement # None

\* C1: a settled parlay is graded LOSS if any leg is LOSS, VOID if every leg
\* is VOID, and WIN in every other case.
C1_ParlayGrading ==
    Graded =>
        LET results == WrittenResults
            anyLoss == \E i \in DOMAIN results : results[i] = "LOSS"
            allVoid == \A i \in DOMAIN results : results[i] = "VOID"
        IN  /\ \A i \in DOMAIN results : results[i] \in {"WIN", "LOSS", "PUSH", "VOID"}
            /\ settlement[1].result =
                  (IF anyLoss THEN "LOSS" ELSE IF allVoid THEN "VOID" ELSE "WIN")
            /\ db_settlements[parlay.id].result = settlement[1].result

\* a three-leg parlay with a WIN, a PUSH and a VOID leg was graded WIN
C1_Witness ==
    /\ Graded
    /\ WrittenResults = <<"WIN", "PUSH", "VOID">>
    /\ settlement[1].result = "WIN"

\* the only leg of the parlay, its matched stats and what was written for it
TheLeg == parlay.nba_sgp_legs[1]
Matched == FindStats(TheLeg, player_stats)
Written == db_legs[TheLeg.id]

\* the sum of the columns of a stat type in a row, a missing column counting 0
ColumnSum(stats, stat_type) ==
    LET cols == STAT_MAPPING[stat_type].cols
    IN  SumSeq([i \in DOMAIN cols |-> IF cols[i] \in DOMAIN stats THEN stats[cols[i]] ELSE 0])

\* C2: a leg of a known stat type whose player is matched and played has the
\* sum of its columns as actual value; it is PUSH when the actual
\* value equals the line, else WIN iff the actual value lies on the leg's side
\* of the line, else LOSS.
C2_LegGrading ==
    (/\ Graded
     /\ TheLeg.stat_type \in DOMAIN STAT_MAPPING
     /\ Matched # None
     /\ Matched[1].minutes # 0)
    => LET actual == ColumnSum(Matched[1], TheLeg.stat_type)
           line == TheLeg.line
       IN  /\ Written.actual_value = Some(actual)
           /\ (actual * LineUnit = line) <=> (Written.result = "PUSH")
           /\ (actual * LineUnit = line) => Written.result \notin {"WIN", "LOSS"}
           /\ (actual * LineUnit # line /\ TheLeg.direction = "over") =>
                 Written.result = (IF actual * LineUnit > line THEN "WIN" ELSE "LOSS")
           /\ (actual * LineUnit # line /\ TheLeg.direction = "under") =>
                 Written.result = (IF actual * LineUnit < line THEN "WIN" ELSE "LOSS")

\* an over leg on a combo stat whose columns sum to the line was graded PUSH
C2_Witness ==
    /\ Graded
    /\ TheLeg.stat_type = "pra"
    /\ TheLeg.direction = "over"
    /\ Matched # None
    /\ Matched[1].minutes # 0
    /\ TheLeg.line = 2 * LineUnit
    /\ Written = [actual_value |-> Some(2), result |-> "PUSH"]

\* the three ways the leg's player is looked up, read by their names: the
\* entry under the normalized name; the one entry whose last name is the
\* leg's last name; an entry with that last name and the leg's first initial
LegParts == Split(NormalizeName(TheLeg.player_name))
HasExactEntry == \E i \in DOMAIN player_stats : player_stats[i].name = NormalizeName(TheLeg.player_name)
SameLastName == {i \in DOMAIN player_stats : Last(Split(player_stats[i].name)) = Last(LegParts)}
HasUniqueLastName == Len(LegParts) >= 1 /\ Cardinality(SameLastName) = 1
HasInitialAndLastName ==
    /\ Len(LegParts) >= 1
    /\ \E i \in SameLastName : Head(Split(player_stats[i].name)[1]) = Head(LegParts[1])
NoEntryMatches == ~HasExactEntry /\ ~HasUniqueLastName /\ ~HasInitialAndLastName

\* C3: a leg is VOID with no actual value when no box-score entry matches
\* its player by exact name, unique last name or first initial and last name,
\* and VOID with actual value 0 when the matched player's minutes are 0.
C3_VoidWhenUnmatchedOrDnp ==
    Graded =>
        /\ NoEntryMatches => Written = [actual_value |-> None, result |-> "VOID"]
        /\ (Matched # None /\ Matched[1].minutes = 0)
              => Written = [actual_value |-> Some(0), result |-> "VOID"]

(***************************************************************************)
(* SignalResult and the edge calculator                                    *)
(***************************************************************************)
Min(a, b) == IF a < b THEN a ELSE b
Max(a, b) == IF a > b THEN a ELSE b

\* SignalResult with the confidence clamped from above only
SignalResultNoFloor(signal_type, strength, conf) ==
    [signal_type |-> signal_type,
     strength |-> Max(-100, Min(100, strength)),
     confidence |-> Min(100, conf)]

\* SignalResult(...) with __post_init__: both values are clamped
SignalResult(signal_type, strength, conf) ==
    [signal_type |-> signal_type,
     strength |-> Max(-100, Min(100, strength)),
     confidence |-> Max(0, Min(100, conf))]

\* EdgeCalculator.signals: the six signals in the order they are run
SignalNames == <<"line_value", "trend", "usage", "matchup", "environment", "correlation">>

WeightVector(line_value, trend, usage, matchup, environment, correlation) ==
    [line_value |-> line_value, trend |-> trend, usage |-> usage,
     matchup |-> matchup, environment |-> environment, correlation |-> correlation]

\* STAT_WEIGHTS with the threes usage weight raised and nothing lowered
StatWeightsDrifted ==
    [points   |-> WeightVector(15, 20, 15, 15, 15, 20),
     rebounds |-> WeightVector(25, 20, 0, 0, 40, 15),
     assists  |-> WeightVector(20, 15, 15, 20, 15, 15),
     threes   |-> WeightVector(25, 20, 15, 15, 10, 20),
     _default |-> WeightVector(25, 20, 10, 15, 10, 20)]

STAT_WEIGHTS ==
    [points   |-> WeightVector(15, 20, 15, 15, 15, 20),
     rebounds |-> WeightVector(25, 20, 0, 0, 40, 15),
     assists  |-> WeightVector(20, 15, 15, 20, 15, 15),
     threes   |-> WeightVector(25, 20, 10, 15, 10, 20),
     _default |-> WeightVector(25, 20, 10, 15, 10, 20)]

\* thresholds, ten-thousandths
STRONG_EDGE == 2500
MODERATE_EDGE == 1500
MIN_EDGE == 800
MIN_CONFIDENCE == 4000

GetWeightsForStat(stat_type) ==
    IF stat_type \in DOMAIN STAT_WEIGHTS THEN STAT_WEIGHTS[stat_type]
    ELSE STAT_WEIGHTS["_default"]

\* the strength of the first result of that name, None without one
GetSignalStrength(results, signal_name) ==
    LET hits == {i \in DOMAIN results : results[i].signal_type = signal_name}
    IN  IF results = <<>> THEN None
        ELSE IF hits = {} THEN None
        ELSE Some(results[FirstIndex(hits)].strength)

Tier(tier, direction) == [tier |-> tier, direction |-> direction]
Pass == [tier |-> "pass", direction |-> ""]

\* StandardRecommendation with the lean tier open to any confidence
StandardLeanAtAnyConfidence(abs_edge, conf, direction, is_high_value) ==
    IF abs_edge >= 2500 /\ conf >= 5500 THEN Tier("strong", direction)
    ELSE IF abs_edge >= 1500 THEN Tier("lean", direction)
    ELSE IF abs_edge >= 800 /\ is_high_value THEN Tier("slight", direction)
    ELSE Pass

\* StandardRecommendation giving lean from the minimum edge of 0.08 on
StandardLeanFromMinEdge(abs_edge, conf, direction, is_high_value) ==
    IF abs_edge >= STRONG_EDGE /\ conf >= 5500 THEN Tier("strong", direction)
    ELSE IF abs_edge >= MIN_EDGE /\ conf >= 5000 THEN Tier("lean", direction)
    ELSE IF abs_edge >= MIN_EDGE /\ is_high_value THEN Tier("slight", direction)
    ELSE Pass

\* lines 332-344: the standard tiers
StandardRecommendation(abs_edge, conf, direction, is_high_value) ==
    IF abs_edge >= STRONG_EDGE /\ conf >= 5500 THEN Tier("strong", direction)
    ELSE IF abs_edge >= MODERATE_EDGE /\ conf >= 5000 THEN Tier("lean", direction)
    ELSE IF abs_edge >= MIN_EDGE /\ is_high_value THEN Tier("slight", direction)
    ELSE Pass

\* PassesGates without the confidence gate
PassesGatesEdgeOnly(abs_edge, conf) == ~(abs_edge < 800)

\* lines 279-284: neither gate returns pass
PassesGates(abs_edge, conf) == ~(conf < MIN_CONFIDENCE) /\ ~(abs_edge < MIN_EDGE)

\* ReboundsRecommendation without the test that the environment agrees
\* with the direction
ReboundsIgnoringSign(abs_edge, conf, direction, env_signal, standard) ==
    IF env_signal = None \/ Abs(env_signal[1]) < 5 THEN Pass
    ELSE IF direction = "over"
         THEN (IF abs_edge >= 1500 THEN Tier("strong", "over") ELSE Tier("lean", "over"))
         ELSE IF abs_edge >= 1500 /\ conf >= 5000 THEN Tier("lean", "under")
              ELSE standard

\* ReboundsRecommendation with an aligned over left to the standard tiers
ReboundsOverByStandard(abs_edge, conf, direction, env_signal, standard) ==
    IF env_signal = None \/ Abs(env_signal[1]) < 5 THEN Pass
    ELSE IF direction = "over"
         THEN (IF ~(env_signal[1] > 0) THEN Pass ELSE standard)
         ELSE IF env_signal[1] > 0 THEN Pass
              ELSE IF abs_edge >= 1500 /\ conf >= 5000 THEN Tier("lean", "under")
                   ELSE standard

\* ReboundsRecommendation leaving an aligned under to the standard tiering
ReboundsUnderByStandard(abs_edge, conf, direction, env_signal, standard) ==
    IF env_signal = None \/ Abs(env_signal[1]) < 5 THEN Pass
    ELSE IF direction = "over"
         THEN IF ~(env_signal[1] > 0) THEN Pass
              ELSE IF abs_edge >= MIN_EDGE /\ conf >= 4000
                   THEN (IF abs_edge >= MODERATE_EDGE THEN Tier("strong", "over")
                         ELSE Tier("lean", "over"))
                   ELSE standard
         ELSE IF env_signal[1] > 0 THEN Pass
              ELSE standard

\* lines 294-319: the rebounds branch; standard is what falling out of it gives
ReboundsRecommendation(abs_edge, conf, direction, env_signal, standard) ==
    IF env_signal = None \/ Abs(env_signal[1]) < 5 THEN Pass
    ELSE IF direction = "over"
         THEN IF ~(env_signal[1] > 0) THEN Pass
              ELSE IF abs_edge >= MIN_EDGE /\ conf >= 4000
                   THEN (IF abs_edge >= MODERATE_EDGE THEN Tier("strong", "over")
                         ELSE Tier("lean", "over"))
                   ELSE standard
         ELSE IF env_signal[1] > 0 THEN Pass
              ELSE IF abs_edge >= MODERATE_EDGE /\ conf >= 5000 THEN Tier("lean", "under")
                   ELSE standard

\* AssistsRecommendation with the global floor of 0.08 in place of 0.15
AssistsAtMinEdge(abs_edge, standard) ==
    IF abs_edge < 800 THEN Pass ELSE standard

\* lines 324-326: the assists branch
AssistsRecommendation(abs_edge, standard) ==
    IF abs_edge < MODERATE_EDGE THEN Pass ELSE standard

\* _get_recommendation; a recommendation 'lean_over' is [tier "lean", direction "over"]
GetRecommendation(edge, conf, context, results) ==
    LET abs_edge == Abs(edge)
        direction == IF edge > 0 THEN "over" ELSE "under"
        standard == StandardRecommendation(abs_edge, conf, direction, context.is_high_value)
    IN  IF ~PassesGates(abs_edge, conf) THEN Pass
        ELSE IF context.stat_type = "rebounds"
             THEN ReboundsRecommendation(abs_edge, conf, direction,
                                         GetSignalStrength(results, "environment"), standard)
        ELSE IF context.stat_type = "assists"
             THEN AssistsRecommendation(abs_edge, standard)
        ELSE standard

\* _calculate_ev, probabilities and the result in millionths, fractions dropped
CalculateEV(edge_magnitude, conf, odds) ==
    LET implied_prob == IF odds >= 0 THEN (100 * 1000000) \div (odds + 100)
                        ELSE (Abs(odds) * 1000000) \div (Abs(odds) + 100)
        est_prob == Max(10000, Min(990000, implied_prob + (edge_magnitude * conf) \div 1000))
    IN  IF odds >= 0 THEN (est_prob * odds) \div 100 - (1000000 - est_prob)
        ELSE (est_prob * 100) \div Abs(odds) - (1000000 - est_prob)

\* the SignalResult each signal's computed pair is constructed into
Constructed(raw) ==
    [i \in DOMAIN raw |-> SignalResult(raw[i].signal_type, raw[i].strength, raw[i].confidence)]

\* SignalResult construction on its own
ConstructSignal ==
    /\ pc = "start"
    /\ pc' = "done"
    /\ signal_results' = Constructed(raw_signals)
    /\ UNCHANGED <<ctx, raw_signals, edge_score, confidence, recommendation, weights,
                   edge_result>>
    /\ UNCHANGED <<settleVars, gameVars>>

NextSignal == ConstructSignal

InitSignal ==
    /\ pc = "start"
    /\ \E signal_type \in {"line_value", "environment"},
          strength \in -MaxRaw..MaxRaw, conf \in -MaxRaw..MaxRaw :
         raw_signals = <<[signal_type |-> signal_type, strength |-> strength,
                          confidence |-> conf]>>
    /\ ctx = None
    /\ signal_results = <<>>
    /\ edge_score = 0
    /\ confidence = 0
    /\ recommendation = ""
    /\ weights = None
    /\ edge_result = None
    /\ SettleIdle

SpecSignal == InitSignal /\ [][NextSignal]_vars

\* _get_recommendation on its own
GetRecommendationCall ==
    /\ pc = "start"
    /\ pc' = "done"
    /\ recommendation' = GetRecommendation(edge_score, confidence, ctx, signal_results)
    /\ UNCHANGED <<ctx, raw_signals, signal_results, edge_score, confidence, weights,
                   edge_result>>
    /\ UNCHANGED <<settleVars, gameVars>>

NextRecommendation == GetRecommendationCall

Context(stat_type, is_high_value, over_odds, under_odds) ==
    [stat_type |-> stat_type, is_high_value |-> is_high_value,
     over_odds |-> over_odds, under_odds |-> under_odds]

EnvValues == -MaxEnv..MaxEnv

\* signal lists handed to _get_recommendation: none, one without an
\* environment result, and ones with it first or second
SignalLists ==
    {<<>>, <<SignalResult("trend", MaxEnv, 50)>>}
    \cup {<<SignalResult("environment", s, 50)>> : s \in EnvValues}
    \cup {<<SignalResult("trend", -s, 50), SignalResult("environment", s, 50)>> : s \in EnvValues}

InitRecommendation ==
    /\ pc = "start"
    /\ \E stat_type \in {"rebounds", "assists", "points", "pra"}, is_high_value \in BOOLEAN :
         ctx = Context(stat_type, is_high_value, -110, -110)
    /\ edge_score \in {100 * e : e \in -MaxEdge..MaxEdge}
    /\ confidence \in {100 * c : c \in 0..MaxConf}
    /\ signal_results \in SignalLists
    /\ raw_signals = <<>>
    /\ recommendation = ""
    /\ weights = None
    /\ edge_result = None
    /\ SettleIdle

SpecRecommendation == InitRecommendation /\ [][NextRecommendation]_vars

(***************************************************************************)
(* calculate_edge                                                          *)
(***************************************************************************)
\* WeightOf with the weight each signal class declares for itself
WeightOfSignalClass(w, name) ==
    CASE name = "line_value" -> 30
      [] name = "trend" -> 20
      [] name = "usage" -> 10
      [] name = "matchup" -> 15
      [] name = "environment" -> 10
      [] OTHER -> 5

\* weights.get(signal.name, 0.0)
WeightOf(w, name) == IF name \in DOMAIN w THEN w[name] ELSE 0

\* the sums of lines 205-219 over the signals with a positive weight
RECURSIVE WeightedSum(_, _, _, _)
WeightedSum(w, results, field, i) ==
    IF i > Len(SignalNames) THEN 0
    ELSE (IF WeightOf(w, SignalNames[i]) > 0
          THEN (CASE field = "strength" -> results[i].strength * WeightOf(w, SignalNames[i])
                  [] field = "confidence" -> results[i].confidence * WeightOf(w, SignalNames[i])
                  [] OTHER -> WeightOf(w, SignalNames[i]))
          ELSE 0)
         + WeightedSum(w, results, field, i + 1)

\* RunSignals with the except clause gone: the pair the signal was computing
\* when it failed is kept
RunSignalsKeepFailed(raw) ==
    [i \in DOMAIN raw |->
        SignalResult(raw[i].signal_type, raw[i].strength, raw[i].confidence)]

\* lines 188-202: each signal in turn; one that raises is replaced by a neutral
\* result under its name
RunSignals(raw) ==
    [i \in DOMAIN raw |->
        IF raw[i].raised THEN SignalResult(raw[i].signal_type, 0, 0)
        ELSE SignalResult(raw[i].signal_type, raw[i].strength, raw[i].confidence)]

\* lines 185-252: the EdgeResult computed from the context and from what the
\* six signals did
EdgeResultOf(c, raw) ==
    LET w == GetWeightsForStat(c.stat_type)
        results == RunSignals(raw)
        total_weighted_strength == WeightedSum(w, results, "strength", 1)
        total_weighted_confidence == WeightedSum(w, results, "confidence", 1)
        total_weight == WeightedSum(w, results, "weight", 1)
        edge == IF total_weight > 0 THEN total_weighted_strength ELSE 0
        conf == IF total_weight > 0
                THEN (total_weighted_confidence * 100) \div total_weight ELSE 0
        direction == IF edge > 0 THEN "over" ELSE "under"
        rec == GetRecommendation(edge, conf, c, results)
        odds == IF direction = "over" THEN c.over_odds ELSE c.under_odds
    IN  [stat_type |-> c.stat_type, edge_score |-> edge,
         confidence |-> conf, direction |-> direction,
         signals |-> results, recommendation |-> rec,
         expected_value |-> CalculateEV(Abs(edge), conf, odds),
         is_high_value |-> c.is_high_value,
         over_odds |-> c.over_odds,
         under_odds |-> c.under_odds]

CalculateEdge ==
    /\ pc = "start"
    /\ ctx # None
    /\ pc' = "done"
    /\ LET result == EdgeResultOf(ctx, raw_signals)
       IN  /\ weights' = GetWeightsForStat(ctx.stat_type)
           /\ signal_results' = result.signals
           /\ edge_score' = result.edge_score
           /\ confidence' = result.confidence
           /\ recommendation' = result.recommendation
           /\ edge_result' = Some(result)
    /\ UNCHANGED <<ctx, raw_signals>>
    /\ UNCHANGED <<settleVars, gameVars>>

NextEdge == CalculateEdge

\* what one signal's calculate may do: compute a pair out of range below, a
\* neutral one, one out of range above, or raise with a pair half computed
SignalOutputs == {[strength |-> -120, confidence |-> 30, raised |-> FALSE],
                  [strength |-> 0, confidence |-> 0, raised |-> FALSE],
                  [strength |-> 60, confidence |-> 130, raised |-> FALSE],
                  [strength |-> 40, confidence |-> 50, raised |-> TRUE]}

\* stat types with a weight vector of their own and without one
EdgeStatTypes == {"points", "rebounds", "assists", "threes", "_default", "blocks", "pra"}

InitEdge ==
    /\ pc = "start"
    /\ \E stat_type \in EdgeStatTypes, is_high_value \in BOOLEAN, over_odds \in {-110, 150} :
         ctx = Context(stat_type, is_high_value, over_odds, -110)
    /\ \E out \in [1..Len(SignalNames) -> SignalOutputs] :
         raw_signals = [i \in 1..Len(SignalNames) |->
                           [signal_type |-> SignalNames[i], strength |-> out[i].strength,
                            confidence |-> out[i].confidence, raised |-> out[i].raised]]
    /\ signal_results = <<>>
    /\ edge_score = 0
    /\ confidence = 0
    /\ recommendation = ""
    /\ weights = None
    /\ edge_result = None
    /\ SettleIdle

SpecEdge == InitEdge /\ [][NextEdge]_vars

(***************************************************************************)
(* analyze_props.  A prop is the PropContext handed in together with what  *)
(* the six signals do on it; a context built without odds (None) makes     *)
(* calculate_edge raise a TypeError in _calculate_ev.                      *)
(***************************************************************************)
MaxProps == 4

\* the six signals all computing one pair
SameSignals(strength, conf) ==
    [i \in 1..Len(SignalNames) |->
        [signal_type |-> SignalNames[i], strength |-> strength,
         confidence |-> conf, raised |-> FALSE]]

\* a prop line with what becomes of it: whether the player is available,
\* what build_context does ("context", "none" or "raised"), whether the
\* context carries odds, and what the signals compute
Prop(player_name, stat_type, strength, conf, available, enriched, priced) ==
    [player_name |-> player_name, stat_type |-> stat_type, line |-> 1,
     over_odds |-> -110, under_odds |-> -110,
     ctx |-> Context(stat_type, FALSE, -110, -110),
     raw |-> SameSignals(strength, conf),
     available |-> available, enriched |-> enriched, priced |-> priced]

\* calculate_edge raises: the odds of the chosen side are None at line 366
CalculateEdgeRaises(p) == ~p.priced

\* the EdgeResult of a prop, with the player it is about
EdgeResultOfProp(p) ==
    EdgeResultOf(p.ctx, p.raw) @@ [player_name |-> p.player_name]

\* lines 401-407: the results of the props whose calculate_edge returned, in
\* input order
RECURSIVE AnalyzeLoop(_, _)
AnalyzeLoop(ps, i) ==
    IF i > Len(ps) THEN <<>>
    ELSE (IF CalculateEdgeRaises(ps[i]) THEN <<>> ELSE <<EdgeResultOfProp(ps[i])>>)
         \o AnalyzeLoop(ps, i + 1)

\* where list.sort puts x among the already sorted: after every element
\* whose key is not smaller (the sort is stable, reverse keeps ties in order)
RECURSIVE InsertByKey(_, _, _)
InsertByKey(sorted, x, key) ==
    IF sorted = <<>> THEN <<x>>
    ELSE IF key[Len(sorted)] >= x.key THEN Append(sorted, x)
    ELSE Append(InsertByKey(Front(sorted), x, Front(key)), Last(sorted))

\* items.sort(key=..., reverse=True) on the first n items, keys[j] the key of
\* items[j]; each entry keeps its key beside its value
RECURSIVE SortDescending(_, _, _)
SortDescending(items, keys, n) ==
    IF n = 0 THEN <<>>
    ELSE LET before == SortDescending(items, keys, n - 1)
         IN  InsertByKey(before, [key |-> keys[n], value |-> items[n]],
                         [j \in DOMAIN before |-> before[j].key])

\* sort(key=signed edge_score, reverse=True): the abs() of the key left out
SortBySignedEdge(results) ==
    SortDescending(results, [j \in DOMAIN results |-> results[j].edge_score], Len(results))

\* line 410: results.sort(key=lambda x: abs(x.edge_score), reverse=True)
SortByAbsEdge(results) ==
    SortDescending(results, [j \in DOMAIN results |-> Abs(results[j].edge_score)],
                   Len(results))

Values(sorted) == [j \in DOMAIN sorted |-> sorted[j].value]

\* one call of analyze_props on the list of props
AnalyzeProps ==
    /\ pc = "start"
    /\ analyzed = None
    /\ pc' = "done"
    /\ analyzed' = Some(Values(SortByAbsEdge(AnalyzeLoop(props, 1))))
    /\ UNCHANGED <<props, generated, saves>>
    /\ UNCHANGED <<settleVars, edgeVars>>

NextAnalyze == AnalyzeProps

\* the props of one game: strong and moderate edges both ways with a tie, a
\* weak one, an assists prop, one of low confidence, one whose context has
\* no odds, one whose context cannot be built, and one of an injured player
PropCatalog ==
    {Prop(AlBo, "points", 20, 60, TRUE, "context", TRUE),
     Prop(AlBo, "assists", -10, 60, TRUE, "context", TRUE),
     Prop(AnnBo, "points", -20, 60, TRUE, "context", TRUE),
     Prop(BoRay, "points", 10, 30, TRUE, "context", TRUE),
     Prop(BoRay, "points", 5, 60, TRUE, "context", TRUE),
     Prop(CyBob, "points", 10, 60, TRUE, "context", FALSE),
     Prop(CyBob, "threes", -16, 60, TRUE, "context", TRUE),
     Prop(DiLee, "points", 12, 60, TRUE, "none", TRUE),
     Prop(DiLee, "points", 22, 60, FALSE, "context", TRUE)}

InitAnalyze ==
    /\ pc = "start"
    /\ \E n \in 0..MaxProps : props \in [1..n -> PropCatalog]
    /\ analyzed = None
    /\ generated = None
    /\ saves = 0
    /\ NoSettlement
    /\ NoEdge

SpecAnalyze == InitAnalyze /\ [][NextAnalyze]_vars

(***************************************************************************)
(* _process_game (scripts/nba_daily_orchestrator.py): the props of one     *)
(* game filtered, enriched, scored, and the three best of distinct players *)
(* built into a parlay that is saved unless the run is a dry run.          *)
(* Probabilities are in ten-thousandths, fractions dropped.                *)
(***************************************************************************)
\* lines 527-536: the props of the players who are available
AvailableProps(ps) == SelectSeq(ps, LAMBDA p : p.available)

\* lines 542-575: the props that were enriched and scored with an edge of at
\* least 0.08, each with its EdgeResult, in input order
RECURSIVE EdgesLoop(_, _)
EdgesLoop(ps, i) ==
    IF i > Len(ps) THEN <<>>
    ELSE (IF ps[i].enriched # "context" \/ CalculateEdgeRaises(ps[i]) THEN <<>>
          ELSE IF Abs(EdgeResultOfProp(ps[i]).edge_score) >= 800
          THEN <<[prop |-> ps[i], edge |-> EdgeResultOfProp(ps[i])]>>
          ELSE <<>>)
         \o EdgesLoop(ps, i + 1)

\* line 586: edges.sort(key=lambda x: abs(x['edge'].edge_score), reverse=True)
SortEdges(edges) ==
    Values(SortDescending(edges, [j \in DOMAIN edges |-> Abs(edges[j].edge.edge_score)],
                          Len(edges)))

\* the selection taking the first three edges whoever the players are
RECURSIVE TopEdgesAnyPlayer(_, _, _, _)
TopEdgesAnyPlayer(edges, i, top, seen) ==
    IF i > Len(edges) \/ Len(top) >= 3 THEN top
    ELSE TopEdgesAnyPlayer(edges, i + 1, Append(top, edges[i]), seen)

\* lines 589-597: the first three edges of players not yet seen
RECURSIVE TopEdges(_, _, _, _)
TopEdges(edges, i, top, seen) ==
    IF i > Len(edges) \/ Len(top) >= 3 THEN top
    ELSE IF edges[i].prop.player_name \notin seen
         THEN TopEdges(edges, i + 1, Append(top, edges[i]),
                       seen \cup {edges[i].prop.player_name})
         ELSE TopEdges(edges, i + 1, top, seen)

\* PropLine.over_implied_prob and under_implied_prob
ImpliedProb(odds) ==
    IF odds >= 0 THEN (100 * 10000) \div (odds + 100)
    ELSE (Abs(odds) * 10000) \div (Abs(odds) + 100)

\* lines 606-637: the leg dict of the i-th selected edge; id 0: the dict
\* carries no id
BuildLeg(i, e) ==
    [id |-> 0, leg_number |-> i, player_name |-> e.prop.player_name,
     stat_type |-> e.prop.stat_type, line |-> e.prop.line,
     direction |-> e.edge.direction,
     odds |-> IF e.edge.direction = "over" THEN e.prop.over_odds ELSE e.prop.under_odds,
     edge_pct |-> e.edge.edge_score, confidence |-> e.edge.confidence,
     market_probability |-> ImpliedProb(IF e.edge.direction = "over" THEN e.prop.over_odds
                                        ELSE e.prop.under_odds),
     primary_reason |-> e.edge.recommendation, pipeline_rank |-> i]

\* lines 605-640: the product of the legs' implied probabilities
RECURSIVE CombinedImpliedProb(_, _)
CombinedImpliedProb(legs, n) ==
    IF n = 0 THEN 10000
    ELSE (CombinedImpliedProb(legs, n - 1) * legs[n].market_probability) \div 10000

\* lines 642-649: the combined probability as American odds
CombinedOdds(prob) ==
    IF prob > 0 /\ prob < 10000
    THEN (IF prob >= 5000 THEN -((100 * prob) \div (10000 - prob))
          ELSE (100 * (10000 - prob)) \div prob)
    ELSE 100

\* lines 671-687: the parlay dict; the uuid4 of a game's first parlay is the
\* id its row keeps
BuildParlay(game_id, legs) ==
    [id |-> "p1", game_id |-> game_id, game_date |-> SettleDay, total_legs |-> Len(legs),
     combined_odds |-> CombinedOdds(CombinedImpliedProb(legs, Len(legs))), legs |-> legs]

\* lines 581-637: the three best edges of distinct players built into legs
SelectLegs(edges) ==
    IF Len(edges) < 3 THEN <<>>
    ELSE LET top == TopEdges(SortEdges(edges), 1, <<>>, {})
         IN  IF Len(top) < 3 THEN <<>> ELSE [i \in DOMAIN top |-> BuildLeg(i, top[i])]

\* lines 518-637: the legs _process_game builds, none when it gives up
LegsOf(ps) ==
    IF Len(AvailableProps(ps)) < 3 THEN <<>>
    ELSE SelectLegs(EdgesLoop(AvailableProps(ps), 1))

\* db_manager.py line 117: parlay.pop("legs") takes the legs out of the dict
\* the caller still holds
Popped(p) == [k \in DOMAIN p \ {"legs"} |-> p[k]]

\* what a call of _process_game leaves: the list it returns, the legs it
\* built, and the tables
Processed(legs, dry_run, after) ==
    /\ generated' = Some([parlays |-> IF legs = <<>> THEN <<>>
                                      ELSE IF dry_run THEN <<BuildParlay("g1", legs)>>
                                      ELSE <<Popped(BuildParlay("g1", legs))>>,
                          legs |-> legs])
    /\ saves' = IF legs = <<>> \/ dry_run THEN saves ELSE saves + 1
    /\ Saved(after)

\* lines 689-700: the parlay saved unless the run is a dry run; a failure of
\* save_parlay is caught and logged
SaveBuilt(legs) ==
    \E dry_run \in BOOLEAN, fail_at \in {0, 3, 5} :
        Processed(legs, dry_run,
                  IF legs = <<>> \/ dry_run
                  THEN [db |-> Tables(db_parlays, db_legs, uuids), raised |-> FALSE]
                  ELSE SaveParlayOn(BuildParlay("g1", legs),
                                    Tables(db_parlays, db_legs, uuids), fail_at))

\* one call of _process_game on the props fetched for game g1
ProcessGame ==
    /\ pc = "start"
    /\ generated = None
    /\ pc' = "done"
    /\ SaveBuilt(LegsOf(props))
    /\ UNCHANGED <<parlay, player_stats, db_settlements, settlement, db_calls, runs,
                   summary, outcome, props, analyzed>>
    /\ UNCHANGED edgeVars

NextGame == ProcessGame

InitGame ==
    /\ pc = "start"
    /\ \E n \in 0..MaxProps : props \in [1..n -> PropCatalog]
    /\ analyzed = None
    /\ generated = None
    /\ saves = 0
    /\ NoSettlement
    /\ NoEdge

SpecGame == InitGame /\ [][NextGame]_vars

(***************************************************************************)
(* The six signals.  A PropContext is a record of the dataclass's fields;  *)
(* averages, line, minutes, usage, ratings, pace, total and spread are in  *)
(* tenths, rates in ten-thousandths, scores and results in hundredths with *)
(* fractions dropped.                                                      *)
(***************************************************************************)
\* a / b with the fraction dropped
DivT(a, b) == IF a >= 0 THEN a \div b ELSE -((-a) \div b)

\* BaseSignal._clamp
Clamp(value, min_val, max_val) == Max(min_val, Min(max_val, value))

\* getattr: the attribute is there when the dataclass declares it
HasAttr(c, name) == name \in DOMAIN c

\* what a call of calculate comes to: the SignalResult returned, or an
\* exception leaving it
Returned(name, strength, conf) ==
    LET r == SignalResult(name, strength, conf)
    IN  [signal_type |-> name, strength |-> r.strength, confidence |-> r.confidence,
         raised |-> FALSE]

Raised(name) == [signal_type |-> name, strength |-> 0, confidence |-> 0, raised |-> TRUE]

\* min(games_played / 20, 1.0) * factor
GamesFactor(c, factor) == (Min((c.games_played * 100) \div 20, 100) * factor) \div 100

\* LineValueSignal._calculate_confidence
LineValueConfidence(c, deviation_pct) ==
    Clamp(50 + GamesFactor(c, 20)
             + (IF c.is_high_value THEN 10 ELSE 0)
             - (IF deviation_pct > 2500 THEN 15 ELSE 0)
             + (IF c.recent_avg > 0 THEN 10 ELSE 0), 0, 100)

\* LineValueSignal.calculate
LineValueCalculate(c) ==
    LET expected == IF c.recent_avg > 0 /\ c.season_avg > 0
                    THEN c.recent_avg * 6 + c.season_avg * 4
                    ELSE IF c.recent_avg > 0 THEN c.recent_avg * 10
                    ELSE IF c.season_avg > 0 THEN c.season_avg * 10
                    ELSE 0
    IN  IF expected = 0 THEN Returned("line_value", 0, 0)
        ELSE LET deviation == DivT((expected - c.line * 10) * 10000, expected)
                 deviation_pct == Abs(deviation)
                 strength_magnitude == ((Min(deviation_pct, 3000) - 500) * 100) \div 2500
             IN  IF deviation_pct < 500 THEN Returned("line_value", 0, 20)
                 ELSE Returned("line_value",
                               Clamp(IF deviation > 0 THEN strength_magnitude
                                     ELSE -strength_magnitude, -100, 100),
                               LineValueConfidence(c, deviation_pct))

\* TrendSignal._calculate_confidence
TrendConfidence(c, trend_magnitude, minutes_trend) ==
    Clamp(50 + GamesFactor(c, 15)
             - (IF trend_magnitude > 3000 THEN 15 ELSE 0)
             + (IF Abs(minutes_trend) < 500 THEN 10 ELSE 0)
             + (IF c.is_high_value THEN 10 ELSE 0), 0, 100)

\* TrendSignal.calculate
TrendCalculate(c) ==
    IF c.season_avg <= 0 \/ c.recent_avg <= 0 THEN Returned("trend", 0, 0)
    ELSE LET trend_pct == DivT((c.recent_avg - c.season_avg) * 10000, c.season_avg)
             abs_trend == Abs(trend_pct)
             minutes_trend == IF c.minutes_per_game > 0 /\ c.recent_minutes > 0
                              THEN DivT((c.recent_minutes - c.minutes_per_game) * 10000,
                                        c.minutes_per_game)
                              ELSE 0
             strength_magnitude == ((Min(abs_trend, 4000) - 1000) * 100) \div 3000
             directed == IF trend_pct > 0 THEN strength_magnitude ELSE -strength_magnitude
             same == (minutes_trend > 0 /\ trend_pct > 0) \/ (minutes_trend < 0 /\ trend_pct < 0)
             opposite == (minutes_trend > 0 /\ trend_pct < 0)
                            \/ (minutes_trend < 0 /\ trend_pct > 0)
             strength == IF same THEN DivT(directed * 110, 100)
                         ELSE IF Abs(minutes_trend) > 1000 /\ opposite
                              THEN DivT(directed * 85, 100)
                              ELSE directed
         IN  IF abs_trend < 1000 THEN Returned("trend", 0, 20)
             ELSE Returned("trend", Clamp(strength, -100, 100),
                           TrendConfidence(c, abs_trend, minutes_trend))

\* UsageSignal._calculate_usage_score
UsageScore(usage_pct) ==
    IF usage_pct >= 300 THEN 100
    ELSE IF usage_pct >= 250 THEN 60 + ((usage_pct - 250) * 40) \div 50
    ELSE IF usage_pct >= 150 THEN ((usage_pct - 150) * 60) \div 100
    ELSE Max(0, DivT(usage_pct * 20, 150))

\* UsageSignal._calculate_minutes_score
MinutesScore(minutes) ==
    IF minutes >= 320 THEN 100
    ELSE IF minutes >= 280 THEN 60 + ((minutes - 280) * 40) \div 40
    ELSE Max(0, DivT(minutes * 60, 280))

\* UsageSignal._evaluate_line_vs_opportunity
EvaluateLineVsOpportunity(c, opportunity_score) ==
    IF c.recent_avg <= 0 \/ c.line <= 0 THEN 0
    ELSE LET line_vs_recent == DivT((c.recent_avg - c.line) * 10000, c.recent_avg)
             fallthrough == DivT(line_vs_recent * 3, 1000)
         IN  IF opportunity_score >= 70
             THEN (IF line_vs_recent > 500 THEN (opportunity_score * 50) \div 100
                   ELSE IF line_vs_recent < -1000 THEN -20
                   ELSE fallthrough)
             ELSE IF opportunity_score < 40
             THEN (IF line_vs_recent > 1000 THEN 10
                   ELSE IF line_vs_recent < -500 THEN -((opportunity_score * 30) \div 100)
                   ELSE fallthrough)
             ELSE fallthrough

\* UsageSignal._calculate_confidence
UsageConfidence(c, usage_score, minutes_score) ==
    Clamp(40 + (usage_score * 20) \div 100 + (minutes_score * 15) \div 100
             + (IF c.games_played >= 20 THEN 15
                ELSE IF c.games_played >= 10 THEN 8 ELSE 0)
             + (IF c.is_high_value THEN 10 ELSE 0), 0, 100)

\* UsageSignal._calculate_rebounds_usage: ctx.reb_frequency is read first,
\* then the contested and uncontested shares
CalculateReboundsUsage(c) ==
    IF ~HasAttr(c, "reb_frequency") THEN Raised("usage")
    ELSE IF c.reb_frequency > 0
         THEN IF ~HasAttr(c, "uncontested_reb_pct") \/ ~HasAttr(c, "contested_reb_pct")
              THEN Raised("usage")
              ELSE LET base == DivT((c.reb_frequency - 1200) * 100, 1000)
                       strength == IF c.uncontested_reb_pct > 6000 THEN DivT(base * 110, 100)
                                   ELSE IF c.contested_reb_pct > 5000
                                        THEN DivT(base * 80, 100)
                                        ELSE base
                   IN  Returned("usage", Clamp(strength, -100, 100), 60)
         ELSE IF c.minutes_per_game > 0
              THEN Returned("usage",
                            Clamp(DivT((MinutesScore(c.minutes_per_game) - 50) * 30, 100),
                                  -100, 100), 30)
              ELSE Returned("usage", 0, 0)

\* UsageSignal.calculate
UsageCalculate(c) ==
    IF c.stat_type = "rebounds" THEN CalculateReboundsUsage(c)
    ELSE IF c.usage_pct <= 0 \/ c.minutes_per_game <= 0 THEN Returned("usage", 0, 0)
    ELSE LET usage_score == UsageScore(c.usage_pct)
             minutes_score == MinutesScore(c.minutes_per_game)
             opportunity_score == (usage_score * 60 + minutes_score * 40) \div 100
         IN  Returned("usage",
                      Clamp(EvaluateLineVsOpportunity(c, opportunity_score), -100, 100),
                      UsageConfidence(c, usage_score, minutes_score))

\* MatchupSignal._pace_adjustment, (pace - 99.5) / 60.0 in ten-thousandths: the
\* league average it subtracts is 99.5, the pace in tenths
PaceAdj(pace) == IF pace <= 0 THEN 0 ELSE DivT((pace - 995) * 100, 6)

\* the pace adjustment on the grid of hundredths the strengths are kept on
PaceAdjustment(pace) == DivT(PaceAdj(pace), 100)

\* MatchupSignal._calculate_confidence; def_diff in tenths, impact_mult in hundredths
MatchupConfidence(c, def_diff, impact_mult) ==
    Clamp(50 + (IF def_diff >= 50 THEN 15 ELSE IF def_diff >= 30 THEN 8 ELSE 0)
             + impact_mult \div 10
             + (IF c.is_high_value THEN 10 ELSE 0)
             + (IF c.opponent_team # "" THEN 5 ELSE 0), 0, 100)

\* MatchupSignal._calculate_rebounds_confidence
ReboundsConfidence(c, net_reb_diff) ==
    Clamp(50 + (IF net_reb_diff >= 500 THEN 15 ELSE IF net_reb_diff >= 300 THEN 8 ELSE 0)
             + (IF c.reb_frequency > 0 THEN 10 ELSE 0)
             + (IF c.is_high_value THEN 10 ELSE 0)
             + (IF c.opponent_team # "" THEN 5 ELSE 0), 0, 100)

\* MatchupSignal._calculate_rebounds_matchup: the opponent's rebounding rates
\* are read first, then the player's rebound profile
CalculateReboundsMatchup(c) ==
    IF ~HasAttr(c, "opponent_dreb_pct") \/ ~HasAttr(c, "opponent_oreb_pct")
    THEN Raised("matchup")
    ELSE IF c.opponent_dreb_pct <= 0 /\ c.opponent_oreb_pct <= 0
         THEN Returned("matchup", 0, 0)
    ELSE IF ~HasAttr(c, "contested_reb_pct") \/ ~HasAttr(c, "uncontested_reb_pct")
               \/ ~HasAttr(c, "reb_frequency")
         THEN Raised("matchup")
    ELSE LET opp_dreb_pct == IF c.opponent_dreb_pct <= 0 THEN 7500 ELSE c.opponent_dreb_pct
             opp_oreb_pct == IF c.opponent_oreb_pct <= 0 THEN 2500 ELSE c.opponent_oreb_pct
             net_reb_diff == DivT((7500 - opp_dreb_pct) * 7 - (opp_oreb_pct - 2500) * 3, 10)
             base == DivT(net_reb_diff, 8)
             base_strength == IF c.contested_reb_pct > 5000 THEN DivT(base * 70, 100)
                              ELSE IF c.uncontested_reb_pct > 6000 THEN DivT(base * 120, 100)
                              ELSE base
             strength == base_strength + DivT(PaceAdjustment(c.opponent_pace), 2)
         IN  Returned("matchup", Clamp(strength, -100, 100),
                      ReboundsConfidence(c, Abs(net_reb_diff)))

\* MatchupSignal._calculate_assists_matchup
CalculateAssistsMatchup(c) ==
    IF c.opponent_def_rating <= 0 THEN Returned("matchup", 0, 0)
    ELSE IF ~HasAttr(c, "pass_to_ast_rate") THEN Raised("matchup")
    ELSE LET def_diff == c.opponent_def_rating - 1120
             base == DivT(def_diff, 2) + DivT(PaceAdjustment(c.opponent_pace) * 3, 2)
             strength == IF c.pass_to_ast_rate > 1000 THEN DivT(base * 110, 100) ELSE base
         IN  Returned("matchup", Clamp(strength, -100, 100),
                      MatchupConfidence(c, Abs(def_diff), 70))

\* impact_map.get(ctx.stat_type, 0.8)
ImpactMult(stat_type) ==
    CASE stat_type = "points" -> 100
      [] stat_type \in {"threes", "fgm"} -> 90
      [] stat_type = "ftm" -> 70
      [] stat_type \in {"pra", "pa"} -> 85
      [] stat_type = "pr" -> 75
      [] OTHER -> 80

\* strength = base_strength + pace_adj of _calculate_scoring_matchup before
\* the clamp, in ten-thousandths: (def_diff / 12.0) * impact_mult plus the
\* pace adjustment
ScoringStrength(c) ==
    IF c.opponent_def_rating <= 0 THEN 0
    ELSE DivT((c.opponent_def_rating - 1120) * ImpactMult(c.stat_type) * 5, 6)
            + PaceAdj(c.opponent_pace)

\* MatchupSignal._calculate_scoring_matchup
CalculateScoringMatchup(c) ==
    IF c.opponent_def_rating <= 0 THEN Returned("matchup", 0, 0)
    ELSE LET def_diff == c.opponent_def_rating - 1120
             impact_mult == ImpactMult(c.stat_type)
             strength == DivT(ScoringStrength(c), 100)
         IN  Returned("matchup", Clamp(strength, -100, 100),
                      MatchupConfidence(c, Abs(def_diff), impact_mult))

\* MatchupSignal.calculate
MatchupCalculate(c) ==
    IF c.stat_type = "rebounds" THEN CalculateReboundsMatchup(c)
    ELSE IF c.stat_type = "assists" THEN CalculateAssistsMatchup(c)
    ELSE CalculateScoringMatchup(c)

\* B2B_IMPACT.get(ctx.stat_type, -0.15), in thousandths
B2BImpact(stat_type) ==
    CASE stat_type = "points" -> -250
      [] stat_type \in {"threes", "pra", "pr", "pa", "fgm"} -> -200
      [] stat_type \in {"blocks", "steals"} -> -100
      [] stat_type = "turnovers" -> 100
      [] OTHER -> -150

\* EnvironmentSignal._blowout_risk, in thousandths
BlowoutRisk(spread, is_home) ==
    LET team_spread == IF is_home THEN spread ELSE -spread
    IN  IF team_spread < -120 THEN -100
        ELSE IF team_spread < -80 THEN -50
        ELSE IF team_spread > 120 THEN -80
        ELSE IF team_spread > 80 THEN -40
        ELSE 0

\* EnvironmentSignal._calculate_confidence
EnvironmentConfidence(c) ==
    Clamp(50 + (IF c.is_b2b THEN 15 ELSE 0) + (IF c.is_high_value THEN 10 ELSE 0)
             + (IF c.spread # None THEN 5 ELSE 0), 0, 100)

\* EnvironmentSignal.calculate; the impact is summed in thousandths
EnvironmentCalculate(c) ==
    LET b2b_impact == IF ~c.is_b2b THEN 0
                      ELSE IF c.is_3_in_4 THEN DivT(B2BImpact(c.stat_type) * 3, 2)
                      ELSE B2BImpact(c.stat_type)
        home == IF c.is_home THEN 50 ELSE 0
        blowout == IF c.spread = None THEN 0 ELSE BlowoutRisk(c.spread[1], c.is_home)
        total_impact == b2b_impact + home + (IF Abs(blowout) > 30 THEN blowout ELSE 0)
    IN  IF Abs(total_impact) < 30 THEN Returned("environment", 0, 30)
        ELSE Returned("environment", Clamp(DivT(total_impact, 10), -100, 100),
                      EnvironmentConfidence(c))

\* STAT_TOTAL_CORRELATION.get(ctx.stat_type, 0.5)
StatTotalCorrelation(stat_type) ==
    CASE stat_type = "points" -> 90
      [] stat_type = "fgm" -> 85
      [] stat_type \in {"threes", "pra", "pa"} -> 80
      [] stat_type \in {"assists", "pr"} -> 70
      [] stat_type \in {"ra", "ftm"} -> 60
      [] stat_type \in {"turnovers", "steals"} -> 40
      [] stat_type = "blocks" -> 30
      [] OTHER -> 50

\* CorrelationSignal._calculate_confidence
CorrelationConfidence(c, total_diff, correlation) ==
    Clamp(40 + (IF total_diff >= 100 THEN 15 ELSE IF total_diff >= 50 THEN 8 ELSE 0)
             + correlation \div 10
             + (IF c.is_high_value THEN 5 ELSE 0), 0, 100)

\* CorrelationSignal.calculate
CorrelationCalculate(c) ==
    IF c.game_total = None \/ c.game_total[1] <= 0 THEN Returned("correlation", 0, 0)
    ELSE LET total == c.game_total[1]
             total_diff == total - 2230
             correlation == StatTotalCorrelation(c.stat_type)
             base_strength == DivT(total_diff * correlation, 300)
             strength == IF total >= 2380 \/ total <= 2080 THEN DivT(base_strength * 6, 5)
                         ELSE base_strength
         IN  Returned("correlation", Clamp(strength, -100, 100),
                      CorrelationConfidence(c, Abs(total_diff), correlation))

\* signal.calculate(ctx) for the signal of that name
Calculate(name, c) ==
    CASE name = "line_value" -> LineValueCalculate(c)
      [] name = "trend" -> TrendCalculate(c)
      [] name = "usage" -> UsageCalculate(c)
      [] name = "matchup" -> MatchupCalculate(c)
      [] name = "environment" -> EnvironmentCalculate(c)
      [] name = "correlation" -> CorrelationCalculate(c)

\* each of the six signals called on the context, as ALL_SIGNALS orders them
CalculateSignals ==
    /\ pc = "start"
    /\ ctx # None
    /\ pc' = "done"
    /\ raw_signals' = [i \in 1..Len(SignalNames) |-> Calculate(SignalNames[i], ctx)]
    /\ UNCHANGED <<ctx, signal_results, edge_score, confidence, recommendation, weights,
                   edge_result>>
    /\ UNCHANGED <<settleVars, gameVars>>

NextSignals == CalculateSignals

\* PropContext(...): the fields of the dataclass, the optional ones at their
\* defaults or set
PropContext(stat_type, line, games_played, minutes_per_game, usage_pct, season_avg, recent_avg, opponent_def_rating, is_b2b, game_total, spread, is_high_value) ==
    [stat_type |-> stat_type, line |-> line, over_odds |-> -110, under_odds |-> -110,
     games_played |-> games_played, minutes_per_game |-> minutes_per_game,
     usage_pct |-> usage_pct, season_avg |-> season_avg, recent_avg |-> recent_avg,
     recent_minutes |-> minutes_per_game,
     opponent_team |-> IF opponent_def_rating = 1120 THEN "" ELSE "BOS",
     opponent_def_rating |-> opponent_def_rating, opponent_pace |-> 990,
     is_home |-> TRUE, is_b2b |-> is_b2b, is_3_in_4 |-> FALSE,
     game_total |-> game_total, spread |-> spread, is_high_value |-> is_high_value]

SignalStatTypes == {"points", "rebounds", "assists", "blocks"}

InitSignals ==
    /\ pc = "start"
    /\ \E stat_type \in SignalStatTypes, games_played \in {0, 20},
          minutes_per_game \in {0, 330}, usage_pct \in {0, 260},
          season_avg \in {0, 100}, recent_avg \in {0, 130},
          opponent_def_rating \in {0, 1120, 1180}, is_b2b \in BOOLEAN,
          game_total \in {None, Some(0), Some(2400)}, spread \in {None, Some(-130)},
          is_high_value \in BOOLEAN :
         ctx = PropContext(stat_type, 95, games_played, minutes_per_game, usage_pct,
                           season_avg, recent_avg, opponent_def_rating, is_b2b,
                           game_total, spread, is_high_value)
    /\ raw_signals = <<>>
    /\ signal_results = <<>>
    /\ edge_score = 0
    /\ confidence = 0
    /\ recommendation = ""
    /\ weights = None
    /\ edge_result = None
    /\ SettleIdle

SpecSignals == InitSignals /\ [][NextSignals]_vars

\* calculate_edge on a context, the six signals run on it as lines 188-202 do
CalculateEdgeOfContext ==
    /\ pc = "start"
    /\ ctx # None
    /\ pc' = "done"
    /\ raw_signals' = [i \in 1..Len(SignalNames) |-> Calculate(SignalNames[i], ctx)]
    /\ LET result == EdgeResultOf(ctx, raw_signals')
       IN  /\ weights' = GetWeightsForStat(ctx.stat_type)
           /\ signal_results' = result.signals
           /\ edge_score' = result.edge_score
           /\ confidence' = result.confidence
           /\ recommendation' = result.recommendation
           /\ edge_result' = Some(result)
    /\ UNCHANGED ctx
    /\ UNCHANGED <<settleVars, gameVars>>

NextContextEdge == CalculateEdgeOfContext

\* the contexts of test_filtering.py (create_test_context) and their
\* neighbours: line 8.0 or 10.0, a player with or without a record, the
\* opponent known or not, the game's total and spread known or not
InitContextEdge ==
    /\ pc = "start"
    /\ \E stat_type \in SignalStatTypes, line \in {80, 100}, games_played \in {0, 20},
          minutes_per_game \in {0, 320}, usage_pct \in {0, 250},
          season_avg \in {0, 100}, recent_avg \in {0, 110},
          opponent_def_rating \in {1120, 1150}, is_b2b \in BOOLEAN,
          game_total \in {None, Some(2400)}, spread \in {None, Some(-130)},
          is_high_value \in BOOLEAN :
         ctx = PropContext(stat_type, line, games_played, minutes_per_game, usage_pct,
                           season_avg, recent_avg, opponent_def_rating, is_b2b,
                           game_total, spread, is_high_value)
    /\ raw_signals = <<>>
    /\ signal_results = <<>>
    /\ edge_score = 0
    /\ confidence = 0
    /\ recommendation = ""
    /\ weights = None
    /\ edge_result = None
    /\ SettleIdle

SpecContextEdge == InitContextEdge /\ [][NextContextEdge]_vars

(***************************************************************************)
(* Recommendation properties                                               *)
(***************************************************************************)
Recommended == pc = "done" /\ ctx # None

\* the environment results in the list handed to _get_recommendation
EnvResults == {i \in DOMAIN signal_results : signal_results[i].signal_type = "environment"}
EnvAbsent == EnvResults = {}
EnvStrength == signal_results[CHOOSE i \in EnvResults : TRUE].strength

EdgeDirection == IF edge_score > 0 THEN "over" ELSE "under"

\* both gates of lines 279-284 are passed
GatesPassed == confidence >= 4000 /\ Abs(edge_score) >= 800

\* C4: a rebounds prop is passed when there is no environment result, when
\* its strength is below 0.05 in magnitude, and when its sign disagrees with
\* the direction of the edge.
C4_ReboundsNeedEnvironment ==
    (Recommended /\ ctx.stat_type = "rebounds") =>
        /\ EnvAbsent => recommendation = Pass
        /\ (~EnvAbsent /\ Abs(EnvStrength) < 5) => recommendation = Pass
        /\ (~EnvAbsent /\ EdgeDirection = "over" /\ ~(EnvStrength > 0)) => recommendation = Pass
        /\ (~EnvAbsent /\ EdgeDirection = "under" /\ EnvStrength > 0) => recommendation = Pass

\* a rebounds over with the largest edge and confidence and a clearly
\* negative environment was passed
C4_Witness ==
    /\ Recommended
    /\ ctx.stat_type = "rebounds"
    /\ edge_score >= 2500
    /\ confidence >= 5500
    /\ ~EnvAbsent
    /\ EnvStrength <= -5
    /\ recommendation = Pass

\* C5: every recommendation other than pass has confidence >= 0.40 and
\* |edge_score| >= 0.08.
C5_Gates ==
    Recommended =>
        /\ confidence < 4000 => recommendation = Pass
        /\ Abs(edge_score) < 800 => recommendation = Pass
        /\ recommendation # Pass => GatesPassed

\* a high-value points prop with a large edge was passed for confidence 0.39
C5_Witness ==
    /\ Recommended
    /\ ctx.stat_type = "points"
    /\ ctx.is_high_value
    /\ edge_score >= 2500
    /\ confidence = 3900
    /\ recommendation = Pass

\* C6: past the gates, a stat type other than rebounds and assists gets strong
\* at |edge| >= 0.25 and confidence >= 0.55, else lean at |edge| >= 0.15 and
\* confidence >= 0.50, else slight when is_high_value, else pass.
C6_StandardTiers ==
    (Recommended /\ ctx.stat_type \notin {"rebounds", "assists"} /\ GatesPassed) =>
        LET abs_edge == Abs(edge_score)
            strong == abs_edge >= 2500 /\ confidence >= 5500
            lean == ~strong /\ abs_edge >= 1500 /\ confidence >= 5000
            slight == ~strong /\ ~lean /\ ctx.is_high_value
        IN  /\ (recommendation = Tier("strong", EdgeDirection)) <=> strong
            /\ (recommendation = Tier("lean", EdgeDirection)) <=> lean
            /\ (recommendation = Tier("slight", EdgeDirection)) <=> slight
            /\ (recommendation = Pass) <=> (~strong /\ ~lean /\ ~slight)

\* an under of edge 0.25 and confidence 0.54 was given lean_under
C6_Witness ==
    /\ Recommended
    /\ ctx.stat_type = "pra"
    /\ edge_score = -2500
    /\ confidence = 5400
    /\ recommendation = Tier("lean", "under")

\* C7: an assists prop with |edge_score| < 0.15 is passed.
C7_AssistsFloor ==
    (Recommended /\ ctx.stat_type = "assists" /\ Abs(edge_score) < 1500) =>
        recommendation = Pass

\* a high-value assists prop with edge 0.10 and confidence 0.60 was passed
C7_Witness ==
    /\ Recommended
    /\ ctx.stat_type = "assists"
    /\ ctx.is_high_value
    /\ edge_score = 1000
    /\ confidence = 6000
    /\ recommendation = Pass

SixNames == {SignalNames[i] : i \in DOMAIN SignalNames}

RECURSIVE SumOver(_, _)
SumOver(w, names) ==
    IF names = {} THEN 0
    ELSE LET n == CHOOSE x \in names : TRUE IN w[n] + SumOver(w, names \ {n})

\* C9: every weight vector of the table sums to 1.0 over the six signals, a
\* stat type outside the table gets the _default vector, and the weights
\* calculate_edge applies sum to 1.0.
C9_WeightsSumToOne ==
    (pc = "done" /\ edge_result # None) =>
        /\ \A k \in DOMAIN STAT_WEIGHTS :
              DOMAIN STAT_WEIGHTS[k] = SixNames /\ SumOver(STAT_WEIGHTS[k], SixNames) = 100
        /\ ctx.stat_type \notin {"points", "rebounds", "assists", "threes", "_default"}
              => weights = STAT_WEIGHTS["_default"]
        /\ DOMAIN weights = SixNames
        /\ SumOver(weights, SixNames) = 100
        /\ SumOver(weights, {n \in SixNames : weights[n] > 0}) = 100

\* a blocks prop was given the _default weights
C9_Witness ==
    /\ pc = "done"
    /\ edge_result # None
    /\ ctx.stat_type = "blocks"
    /\ weights = WeightVector(25, 20, 10, 15, 10, 20)

\* C10: a constructed SignalResult has strength in [-1, 1] and confidence in
\* [0, 1]: a value outside is replaced by the nearest bound, one inside is kept.
C10_Clamped ==
    (pc = "done" /\ raw_signals # <<>>) =>
        /\ Len(signal_results) = Len(raw_signals)
        /\ \A i \in DOMAIN raw_signals :
              LET raw == raw_signals[i]
                  res == signal_results[i]
              IN  /\ res.strength \in -100..100
                  /\ res.confidence \in 0..100
                  /\ res.strength = (IF raw.strength < -100 THEN -100
                                     ELSE IF raw.strength > 100 THEN 100 ELSE raw.strength)
                  /\ res.confidence = (IF raw.confidence < 0 THEN 0
                                       ELSE IF raw.confidence > 100 THEN 100
                                       ELSE raw.confidence)

\* a strength above 1 and a confidence below 0 were replaced by 1 and 0
C10_Witness ==
    /\ pc = "done"
    /\ Len(raw_signals) = 1
    /\ raw_signals[1].strength > 100
    /\ raw_signals[1].confidence < 0
    /\ signal_results[1].strength = 100
    /\ signal_results[1].confidence = 0

\* C11: whichever signals raise inside calculate_edge, an EdgeResult is
\* returned whose signals list has the six entries in the fixed order, a failed
\* signal standing as strength 0 and confidence 0 under its name; when every
\* signal of positive weight failed, edge_score and confidence are both 0.
C11_FailedSignalsNeutral ==
    (pc = "done" /\ ctx # None /\ Len(raw_signals) = Len(SignalNames)) =>
        /\ edge_result # None
        /\ LET signals == edge_result[1].signals
           IN  /\ Len(signals) = 6
               /\ \A i \in 1..6 :
                     /\ signals[i].signal_type = SignalNames[i]
                     /\ raw_signals[i].raised =>
                           signals[i].strength = 0 /\ signals[i].confidence = 0
               /\ (\A i \in 1..6 : WeightOf(weights, SignalNames[i]) > 0
                                        => raw_signals[i].raised)
                     => edge_result[1].edge_score = 0 /\ edge_result[1].confidence = 0

\* trend and matchup raised, the other four computed, and the six results are
\* there with a non-zero edge
C11_Witness ==
    /\ pc = "done"
    /\ edge_result # None
    /\ Len(raw_signals) = 6
    /\ {i \in 1..6 : raw_signals[i].raised} = {2, 4}
    /\ Len(edge_result[1].signals) = 6
    /\ edge_result[1].signals[2] = SignalResult("trend", 0, 0)
    /\ edge_result[1].edge_score # 0

\* the inputs a signal cannot do without are missing or zero
RequiredMissing(name, c) ==
    CASE name = "line_value" -> c.recent_avg <= 0 /\ c.season_avg <= 0
      [] name = "trend" -> c.recent_avg <= 0 \/ c.season_avg <= 0
      [] name = "usage" -> c.usage_pct <= 0 \/ c.minutes_per_game <= 0
      [] name = "matchup" -> c.opponent_def_rating <= 0
      [] name = "environment" -> FALSE
      [] name = "correlation" -> c.game_total = None \/ c.game_total[1] <= 0

\* C12: for each signal and every PropContext, one left at its defaults
\* included, calculate returns a SignalResult and does not raise, and when the
\* inputs the signal requires are missing or zero the result is strength 0,
\* confidence 0.
C12_SignalsNeverRaise ==
    (pc = "done" /\ ctx # None /\ edge_result = None /\ raw_signals # <<>>) =>
        \A i \in DOMAIN raw_signals :
            /\ ~raw_signals[i].raised
            /\ RequiredMissing(SignalNames[i], ctx) =>
                  raw_signals[i].strength = 0 /\ raw_signals[i].confidence = 0

\* the signal outcomes with those of usage and matchup replaced
WithUsageAndMatchup(raw, usage, matchup) ==
    [i \in DOMAIN raw |->
        IF raw[i].signal_type = "usage"
        THEN [signal_type |-> "usage", strength |-> usage.strength,
              confidence |-> usage.confidence, raised |-> usage.raised]
        ELSE IF raw[i].signal_type = "matchup"
        THEN [signal_type |-> "matchup", strength |-> matchup.strength,
              confidence |-> matchup.confidence, raised |-> matchup.raised]
        ELSE raw[i]]

\* C13: a signal of weight 0 is evaluated and listed but has no influence: for
\* a rebounds prop the run made and any run differing from it only in what the
\* usage and matchup signals returned agree on edge_score, confidence,
\* direction, recommendation and expected_value, while the list of signals
\* carries what usage and matchup returned.
C13_ZeroWeightNoInfluence ==
    (pc = "done" /\ edge_result # None /\ ctx.stat_type = "rebounds") =>
        /\ weights["usage"] = 0 /\ weights["matchup"] = 0
        /\ \A i \in {3, 4} :
              /\ edge_result[1].signals[i].signal_type = SignalNames[i]
              /\ ~raw_signals[i].raised =>
                    edge_result[1].signals[i] =
                        SignalResult(SignalNames[i], raw_signals[i].strength,
                                     raw_signals[i].confidence)
        /\ \A usage \in SignalOutputs, matchup \in SignalOutputs :
              LET other == EdgeResultOf(ctx, WithUsageAndMatchup(raw_signals, usage, matchup))
                  this == edge_result[1]
              IN  /\ other.edge_score = this.edge_score
                  /\ other.confidence = this.confidence
                  /\ other.direction = this.direction
                  /\ other.recommendation = this.recommendation
                  /\ other.expected_value = this.expected_value

\* a rebounds prop with a recommendation made, where usage and matchup both
\* returned full strength and are listed with it
C13_Witness ==
    /\ pc = "done"
    /\ edge_result # None
    /\ ctx.stat_type = "rebounds"
    /\ edge_result[1].recommendation # Pass
    /\ edge_result[1].signals[3].strength = 60
    /\ edge_result[1].signals[4].strength = -100

\* the upserts of settlement records made so far, in order
SettlementCalls == SelectSeq(db_calls, LAMBDA c : c.table = "nba_sgp_settlements" /\ c.ok)

\* C14: settling the same parlay twice against unchanged box scores yields a
\* Settlement record identical to the first one, and the settlements table
\* holds at most one record for the parlay.
C14_ResettleIdentical ==
    (pc = "again" /\ settlement # None) =>
        /\ Len(SettlementCalls) = 2
        /\ SettlementCalls[2].record = SettlementCalls[1].record
        /\ db_settlements[parlay.id] = SettlementCalls[1].record
        /\ DOMAIN db_settlements = {parlay.id}

\* the successful updates of one leg made so far, in order
LegWrites(id) ==
    SelectSeq(db_calls, LAMBDA c : c.table = "nba_sgp_legs" /\ c.key = id /\ c.ok)

\* C15: a leg's result is null until settlement writes it and the settled
\* state is terminal: over any runs of settle_date, with box scores that may
\* differ and database writes that may fail part-way through a parlay, a
\* leg's result and actual_value are written at most once and do not change
\* afterwards.
C15_LegWrittenOnce ==
    \A id \in DOMAIN db_legs :
        /\ Len(LegWrites(id)) <= 1
        /\ Len(LegWrites(id)) = 0 =>
              db_legs[id].result = "null" /\ db_legs[id].actual_value = None
        /\ Len(LegWrites(id)) = 1 => db_legs[id] = LegWrites(id)[1].record

\* C16: every settlement _settle_parlay produces has legs_hit equal to the
\* number of its legs graded WIN, PUSH and VOID legs not counted, and
\* total_legs equal to the number of legs graded, so that
\* 0 <= legs_hit <= total_legs in every settlement record written.
C16_LegsHitCountsWins ==
    Graded =>
        LET legs == parlay.nba_sgp_legs
            wins == {i \in DOMAIN legs : db_legs[legs[i].id].result = "WIN"}
            record == db_settlements[parlay.id]
        IN  /\ record.legs_hit = Cardinality(wins)
            /\ record.total_legs = Len(legs)
            /\ 0 <= record.legs_hit /\ record.legs_hit <= record.total_legs
            /\ settlement[1].legs_hit = record.legs_hit
            /\ settlement[1].total_legs = record.total_legs
            /\ \A j \in DOMAIN SettlementCalls :
                  SettlementCalls[j].record.legs_hit <= SettlementCalls[j].record.total_legs

\* a parlay of a WIN leg, a PUSH leg and a VOID leg was settled with 1 of 3 hit
C16_Witness ==
    /\ Graded
    /\ {db_legs[id].result : id \in DOMAIN db_legs} = {"WIN", "PUSH", "VOID"}
    /\ db_settlements[parlay.id].legs_hit = 1
    /\ db_settlements[parlay.id].total_legs = 3

\* the stored parlay of that id
StoredParlayOf(id) == CHOOSE p \in {db_parlays[i] : i \in DOMAIN db_parlays} : p.id = id

LegIds(p) == {p.nba_sgp_legs[i].id : i \in DOMAIN p.nba_sgp_legs}

\* C17: within the settlement of one parlay the Settlement record is derived
\* and written only after every leg of the parlay was graded and its result
\* written in that run; when grading or writing a leg fails, no Settlement
\* record is written for the parlay in that run.
C17_LegsBeforeSettlement ==
    \A j \in DOMAIN db_calls :
        LET c == db_calls[j] IN
        /\ c.table = "nba_sgp_settlements" =>
              LET legs == StoredParlayOf(c.key).nba_sgp_legs
                  WrittenBefore(i) == {k \in 1..(j - 1) : /\ db_calls[k].run = c.run
                                                    /\ db_calls[k].table = "nba_sgp_legs"
                                                    /\ db_calls[k].key = legs[i].id
                                                    /\ db_calls[k].ok}
              IN  /\ legs # <<>>
                  /\ \A i \in DOMAIN legs : Cardinality(WrittenBefore(i)) = 1
                  /\ c.record.result =
                        ParlayResult([i \in DOMAIN legs |->
                                         db_calls[CHOOSE k \in WrittenBefore(i) : TRUE].record.result])
        /\ (c.table = "nba_sgp_legs" /\ ~c.ok) =>
              ~\E k \in DOMAIN db_calls :
                    /\ db_calls[k].run = c.run
                    /\ db_calls[k].table = "nba_sgp_settlements"
                    /\ c.key \in LegIds(StoredParlayOf(db_calls[k].key))

\* in one run the second leg of p1 failed after its first leg was written,
\* p1 got no settlement and p2 was settled
C17_Witness ==
    /\ runs = 1
    /\ "p1" \notin DOMAIN db_settlements
    /\ "p2" \in DOMAIN db_settlements
    /\ {11, 12} \subseteq DOMAIN db_legs
    /\ db_legs[11].result # "null"
    /\ db_legs[12].result = "null"
    /\ \E j \in DOMAIN db_calls : db_calls[j].key = 12 /\ ~db_calls[j].ok

\* the database calls made for parlay p: the updates of its legs and the
\* upsert of its settlement
CallsFor(p, calls) ==
    SelectSeq(calls, LAMBDA c : IF c.table = "nba_sgp_legs" THEN c.key \in LegIds(p)
                                ELSE c.key = p.id)

\* C18: settle_date settles only parlays of the given date that have no
\* Settlement record: a parlay with a record is not among the unsettled
\* parlays, and a run leaves its record and its legs' result and actual_value
\* as they were; so it does with the parlays of another date.
C18_SettledLeftAlone ==
    [][\A i \in DOMAIN db_parlays :
          LET p == db_parlays[i]
              unsettled == GetUnsettledParlays(db_parlays, db_settlements, SettleDay)
          IN  (p.id \in DOMAIN db_settlements \/ p.game_date # SettleDay) =>
                  /\ \A k \in DOMAIN unsettled : unsettled[k].id # p.id
                  /\ (p.id \in DOMAIN db_settlements') = (p.id \in DOMAIN db_settlements)
                  /\ p.id \in DOMAIN db_settlements =>
                        db_settlements'[p.id] = db_settlements[p.id]
                  /\ \A id \in LegIds(p) : db_legs'[id] = db_legs[id]
                  /\ CallsFor(p, db_calls') = CallsFor(p, db_calls)]_vars

\* p1 was settled by the first run and p2, which failed in it, by the second
\* run, which left p1's record and legs as the first run wrote them
C18_Witness ==
    /\ runs = 2
    /\ DOMAIN db_settlements = {"p1", "p2"}
    /\ db_settlements["p1"].id = 1
    /\ db_settlements["p2"].id > 1
    /\ \A j \in DOMAIN db_calls :
          (db_calls[j].table = "nba_sgp_settlements" /\ db_calls[j].ok) =>
              db_calls[j].run = (IF db_calls[j].key = "p1" THEN 1 ELSE 2)
    /\ \A j \in DOMAIN CallsFor(db_parlays[1], db_calls) :
          CallsFor(db_parlays[1], db_calls)[j].run = 1

\* the calls of the run just made
LastRunCalls == SelectSeq(db_calls, LAMBDA c : c.run = runs)

\* the parlays the run just made found unsettled
UnsettledBefore ==
    SelectSeq(db_parlays,
              LAMBDA p : /\ p.game_date = SettleDay
                         /\ ~\E j \in DOMAIN db_calls :
                               /\ db_calls[j].run < runs
                               /\ db_calls[j].table = "nba_sgp_settlements"
                               /\ db_calls[j].key = p.id
                               /\ db_calls[j].ok)

SettledNow(p) ==
    \E j \in DOMAIN LastRunCalls :
        /\ LastRunCalls[j].table = "nba_sgp_settlements"
        /\ LastRunCalls[j].key = p.id
        /\ LastRunCalls[j].ok

FailedNow(p) ==
    \E j \in DOMAIN CallsFor(p, LastRunCalls) : ~CallsFor(p, LastRunCalls)[j].ok

RECURSIVE Ids(_)
Ids(parlays) == IF parlays = <<>> THEN <<>> ELSE <<Head(parlays).id>> \o Ids(Tail(parlays))

\* C19: in settle_date an exception raised while one parlay is settled is
\* recorded in the errors list and the loop goes on: every other unsettled
\* parlay of the date is attempted and, when it succeeds, settled and counted,
\* before or after the failing one.
C19_LoopContinues ==
    (outcome = "returned" /\ summary[1].errors # <<"No box scores available">>) =>
        /\ summary[1].parlays_found = Len(UnsettledBefore)
        /\ \A i \in DOMAIN UnsettledBefore :
              LET p == UnsettledBefore[i]
              IN  p.nba_sgp_legs # <<>> =>
                      /\ CallsFor(p, LastRunCalls) # <<>>
                      /\ SettledNow(p) # FailedNow(p)
                      /\ SettledNow(p) => p.id \in DOMAIN db_settlements
        /\ summary[1].errors = Ids(SelectSeq(UnsettledBefore, FailedNow))
        /\ summary[1].parlays_settled = Len(SelectSeq(UnsettledBefore, SettledNow))
        /\ summary[1].wins + summary[1].losses + summary[1].voids
              = summary[1].parlays_settled

\* p1 raised at its first leg and p2, after it, was settled and counted
C19_Witness ==
    /\ outcome = "returned"
    /\ runs = 1
    /\ summary[1].parlays_found = 2
    /\ summary[1].errors = <<"p1">>
    /\ summary[1].parlays_settled = 1
    /\ "p2" \in DOMAIN db_settlements
    /\ "p1" \notin DOMAIN db_settlements

\* C20: neither batch entry point ends by raising: whatever collaborator
\* fails (the query for unsettled parlays, the box-score fetch, a database
\* write), settle_date returns a summary holding the partial results and the
\* errors.
C20_BatchNeverRaises ==
    /\ outcome # "raised"
    /\ outcome = "returned" => summary # None

\* C21: at a $100 stake (in cents) the profit of a settled parlay is -100
\* for LOSS, 0 for VOID, and for WIN the combined odds themselves when they
\* are >= 0 and 100*100/|odds| (the fraction of a cent dropped) when they
\* are negative; so the profit is negative exactly for LOSS and never
\* negative for WIN.
C21_Profit ==
    Graded =>
        LET record == db_settlements[parlay.id]
            odds == parlay.combined_odds
            profit == record.profit
        IN  /\ settlement[1].profit = profit
            /\ record.result = "LOSS" => profit = -10000
            /\ record.result = "VOID" => profit = 0
            /\ record.result = "WIN" /\ odds >= 0 => profit = 100 * odds
            /\ record.result = "WIN" /\ odds < 0 =>
                  /\ profit * (-odds) <= 100 * 100 * 100
                  /\ (profit + 1) * (-odds) > 100 * 100 * 100
            /\ profit < 0 <=> record.result = "LOSS"
            /\ record.result = "WIN" => profit >= 0

\* a parlay at -250 was settled WIN and paid 40 dollars
C21_Witness ==
    /\ Graded
    /\ parlay.combined_odds = -250
    /\ db_settlements[parlay.id].result = "WIN"
    /\ db_settlements[parlay.id].profit = 4000

\* the number of places of a sequence holding x
Count(seq, x) == Cardinality({i \in DOMAIN seq : seq[i] = x})

\* C22: analyze_props returns exactly one EdgeResult for each prop whose
\* calculate_edge returned and none for a prop whose call raised, and the
\* list is in non-increasing order of |edge_score|.
C22_AnalyzePropsSorted ==
    analyzed # None =>
        LET out == analyzed[1]
            succeeded == {i \in DOMAIN props : props[i].priced}
        IN  /\ Len(out) = Cardinality(succeeded)
            /\ \A i \in succeeded :
                  Count(out, EdgeResultOfProp(props[i]))
                      = Cardinality({j \in succeeded :
                                        EdgeResultOfProp(props[j]) = EdgeResultOfProp(props[i])})
            /\ \A j \in DOMAIN out : \E i \in succeeded : out[j] = EdgeResultOfProp(props[i])
            /\ \A j \in 1..(Len(out) - 1) :
                  Abs(out[j].edge_score) >= Abs(out[j + 1].edge_score)

\* three props, a weak over, a failing one and a strong under, came back as
\* the strong under followed by the weak over
C22_Witness ==
    /\ analyzed # None
    /\ Len(props) = 3
    /\ ~props[2].priced
    /\ Len(analyzed[1]) = 2
    /\ analyzed[1][1].edge_score = -2000
    /\ analyzed[1][2].edge_score = 500

\* C24: in every database state reachable through save_parlay, a re-save
\* of the same game and a save interrupted while its legs are inserted
\* included, each parlay's total_legs equals the number of leg rows attached
\* to it, and at most one parlay row exists per unique key.
C24_TotalLegsMatchRows ==
    /\ \A i \in DOMAIN db_parlays :
          db_parlays[i].total_legs = Len(db_parlays[i].nba_sgp_legs)
    /\ \A i, j \in DOMAIN db_parlays :
          db_parlays[i].game_id = db_parlays[j].game_id => i = j

\* the leg rows attached to the parlay of that id
AttachedLegs(parlay_id) ==
    UNION {{db_parlays[i].nba_sgp_legs[k].id : k \in DOMAIN db_parlays[i].nba_sgp_legs} :
              i \in {j \in DOMAIN db_parlays : db_parlays[j].id = parlay_id}}

\* C28: in every state reachable by interleaving save_parlay (a regeneration
\* of an existing parlay included) and settle_date, each settlement record's
\* legs_hit equals the number of legs now attached to its parlay whose result
\* is WIN, and every leg attached to a settled parlay has a non-null result.
C28_SettlementMatchesLegs ==
    \A parlay_id \in DOMAIN db_settlements :
        /\ db_settlements[parlay_id].legs_hit
              = Cardinality({id \in AttachedLegs(parlay_id) : db_legs[id].result = "WIN"})
        /\ \A id \in AttachedLegs(parlay_id) : db_legs[id].result # "null"

\* the props _process_game scored with an edge of at least 0.08
Qualifying ==
    {i \in DOMAIN props :
        /\ props[i].available /\ props[i].enriched = "context" /\ props[i].priced
        /\ Abs(EdgeResultOfProp(props[i]).edge_score) >= 800}

QualifyingPlayers == {props[i].player_name : i \in Qualifying}

\* the highest |edge| among a player's qualifying props
BestOf(name) ==
    LET own == {Abs(EdgeResultOfProp(props[i]).edge_score) :
                   i \in {j \in Qualifying : props[j].player_name = name}}
    IN  CHOOSE m \in own : \A x \in own : x <= m

\* C23: every parlay _process_game produces has exactly 3 legs of pairwise
\* distinct players, each of |edge_score| >= 0.08, and total_legs 3; no
\* parlay is produced when fewer than 3 props reach |edge| >= 0.08 or when
\* they cover fewer than 3 players; and the legs are the highest-|edge| prop
\* of each of the three players ranked first by |edge|.
C23_ThreeDistinctPlayers ==
    generated # None =>
        LET legs == generated[1].legs
            parlays == generated[1].parlays
            names == {legs[k].player_name : k \in DOMAIN legs}
        IN  /\ Len(parlays) <= 1
            /\ parlays = <<>> <=> legs = <<>>
            /\ parlays # <<>> =>
                  /\ Len(legs) = 3
                  /\ parlays[1].total_legs = 3
                  /\ \A k, l \in DOMAIN legs : k # l => legs[k].player_name # legs[l].player_name
                  /\ \A k \in DOMAIN legs :
                        /\ Abs(legs[k].edge_pct) >= 800
                        /\ Abs(legs[k].edge_pct) = BestOf(legs[k].player_name)
                        /\ \E i \in Qualifying :
                              /\ props[i].player_name = legs[k].player_name
                              /\ props[i].stat_type = legs[k].stat_type
                              /\ EdgeResultOfProp(props[i]).edge_score = legs[k].edge_pct
                        /\ \A name \in QualifyingPlayers \ names :
                              BestOf(name) <= Abs(legs[k].edge_pct)
                  /\ \A k \in 1..2 : Abs(legs[k].edge_pct) >= Abs(legs[k + 1].edge_pct)
            /\ (Cardinality(Qualifying) < 3 \/ Cardinality(QualifyingPlayers) < 3) =>
                  parlays = <<>>

\* four props of three players all reached the edge floor, the second prop
\* of one player was skipped and a parlay of three legs was produced
C23_Witness ==
    /\ generated # None
    /\ Len(props) = 4
    /\ Cardinality(Qualifying) = 4
    /\ Cardinality(QualifyingPlayers) = 3
    /\ Len(generated[1].parlays) = 1
    /\ Len(generated[1].legs) = 3

\* C29: a prop the edge calculator filters with recommendation pass is never
\* selected: every leg of a parlay _process_game produces has a
\* recommendation other than pass.
C29_NoPassLegs ==
    generated # None =>
        \A k \in DOMAIN generated[1].legs : generated[1].legs[k].primary_reason # Pass

\* the test's neutral environment: a home game, no back-to-back, no 3-in-4,
\* no spread and no game total
NeutralEnvironment(c) ==
    /\ c.is_home /\ ~c.is_b2b /\ ~c.is_3_in_4
    /\ c.spread = None /\ c.game_total = None

\* C25: a rebounds prop leaning over whose game context is the test's
\* neutral environment gets recommendation pass from calculate_edge.
C25_NeutralReboundsPass ==
    (/\ Recommended
     /\ ctx.stat_type = "rebounds"
     /\ edge_score > 0
     /\ NeutralEnvironment(ctx))
    => recommendation = Pass

\* C26 as stated: for a stat type with no override, an edge score of
\* magnitude 0.10 with confidence 0.60 yields lean_{direction}.
C26_LeanAtTenPercent ==
    (/\ Recommended
     /\ ctx.stat_type \notin {"rebounds", "assists"}
     /\ Abs(edge_score) = 1000
     /\ confidence = 6000)
    => recommendation = Tier("lean", EdgeDirection)

\* C26 amended: for a stat type with no override, an edge score of magnitude
\* 0.10 with confidence 0.60 is below the 0.15 a lean needs: it yields
\* slight_{direction} for a high-value player and pass otherwise.
C26_SlightAtTenPercent ==
    (/\ Recommended
     /\ ctx.stat_type \notin {"rebounds", "assists"}
     /\ Abs(edge_score) = 1000
     /\ confidence = 6000)
    => recommendation = (IF ctx.is_high_value THEN Tier("slight", EdgeDirection) ELSE Pass)

\* a high-value points prop of edge -0.10 and confidence 0.60 was given
\* slight_under
C26_Witness ==
    /\ Recommended
    /\ ctx.stat_type = "points"
    /\ ctx.is_high_value
    /\ edge_score = -1000
    /\ confidence = 6000
    /\ recommendation = Tier("slight", "under")

\* the bar of the rebounds-under branch: the environment aligned with the
\* under at a strength of 0.05 or more, |edge| >= 0.15 and confidence >= 0.50
UnderBarMet ==
    /\ ~EnvAbsent
    /\ EnvStrength <= -5
    /\ Abs(edge_score) >= 1500
    /\ confidence >= 5000

\* C27: a rebounds prop of direction under is recommended pass, lean_under or
\* slight_under and never strong_under: lean_under exactly when the
\* environment strength is <= -0.05, |edge| >= 0.15 and confidence >= 0.50;
\* below that bar the standard tiering it falls to can only give
\* slight_under, and only to a high-value player, or pass.
C27_ReboundsUnder ==
    (Recommended /\ ctx.stat_type = "rebounds" /\ EdgeDirection = "under") =>
        /\ recommendation \in {Pass, Tier("lean", "under"), Tier("slight", "under")}
        /\ recommendation # Tier("strong", "under")
        /\ (recommendation = Tier("lean", "under")) <=> UnderBarMet
        /\ (recommendation = Tier("slight", "under")) <=>
              (/\ ~UnderBarMet /\ GatesPassed /\ ctx.is_high_value
               /\ ~EnvAbsent /\ EnvStrength <= -5)

\* a rebounds under of edge 0.27 and confidence 0.60 with the environment at
\* -0.05 was given lean_under, where the standard tiering gives strong_under
C27_Witness ==
    /\ Recommended
    /\ ctx.stat_type = "rebounds"
    /\ edge_score = -2700
    /\ confidence = 6000
    /\ ~EnvAbsent
    /\ EnvStrength = -5
    /\ recommendation = Tier("lean", "under")

\* C30: for a scoring stat type, a context whose opponent_def_rating and
\* opponent_pace are the fallbacks 112.0 and 99.0 gets a matchup strength of
\* exactly 0 from MatchupSignal: neither the value it computes nor the
\* strength it returns leans over or under.
C30_FallbackMatchupNeutral ==
    (/\ pc = "done"
     /\ ctx # None
     /\ Len(raw_signals) = Len(SignalNames)
     /\ ctx.stat_type \notin {"rebounds", "assists"}
     /\ ctx.opponent_def_rating = 1120
     /\ ctx.opponent_pace = 990) =>
        /\ ~raw_signals[4].raised
        /\ raw_signals[4] = CalculateScoringMatchup(ctx)
        /\ ScoringStrength(ctx) = 0

====
